---- MODULE Spec2Model ----
(***************************************************************************)
(* Model of the ProPublica Nonprofit Explorer API client                   *)
(* (src/src/propublica_mcp/api_client.py): the RateLimiter shared by all   *)
(* concurrent callers, the retrying _make_request, and the EIN-validating  *)
(* public operations get_organization / get_organization_filings; and of   *)
(* its pure parts, each applied to one argument at a time (ApplySpec): the *)
(* EIN cleaning of the MCP tools (src/src/propublica_mcp/server.py), the   *)
(* filter validation and result assembly of search_organizations, and the  *)
(* normalizers _parse_organization and _parse_filing with the pydantic     *)
(* models they construct (src/src/server/propublica_mcp/models.py).        *)
(*                                                                         *)
(* Scheduling is asyncio's: a coroutine runs without interruption from one *)
(* await that suspends to the next, so every action below is the code      *)
(* between two suspension points.                                          *)
(*                                                                         *)
(* Time is kept relative to the present.  The code reads a tracked request *)
(* time req_time only through the difference now - req_time, so the model  *)
(* stores for each timestamp its age (present time minus the timestamp),   *)
(* and Tick lets one second pass by ageing every timestamp and running     *)
(* down every sleep.  Ages saturate at time_window: the code treats every  *)
(* age >= time_window alike (the entry is pruned).                         *)
(***************************************************************************)
EXTENDS Integers, Sequences, FiniteSets, TLC

\* RateLimiter(max_requests, time_window), scaled down from 60 per 60 s.
max_requests == 1
time_window == 3
\* ProPublicaClient(max_retries=3)
max_retries == 3
\* length of a valid EIN
EinLen == 9

\* The concurrent logical operations (tool invocations in flight).
Procs == {1, 2}
NoProc == 0

Min(a, b) == IF a < b THEN a ELSE b
Max(a, b) == IF a > b THEN a ELSE b

----------------------------------------------------------------------------
\* EIN cleaning and validation.  A string is a tuple of one-character strings.

Digits == {"0", "1", "2", "3", "4", "5", "6", "7", "8", "9"}
Whitespace == {" ", "\t", "\n"}

\* str.replace('-', '')
RemoveHyphens(s) == SelectSeq(s, LAMBDA c : c # "-")

RECURSIVE LStrip(_)
LStrip(s) == IF s # <<>> /\ Head(s) \in Whitespace THEN LStrip(Tail(s)) ELSE s

RECURSIVE RStrip(_)
RStrip(s) ==
    IF s # <<>> /\ s[Len(s)] \in Whitespace
    THEN RStrip(SubSeq(s, 1, Len(s) - 1))
    ELSE s

\* str.strip()
Strip(s) == RStrip(LStrip(s))

\* str.isdigit(): non-empty and every character a digit
IsDigit(s) == s # <<>> /\ \A i \in 1..Len(s) : s[i] \in Digits

\* ein_clean = str(ein).replace('-', '').strip()
CleanEin(ein) == Strip(RemoveHyphens(ein))

\* The validation without its length test.
EinAcceptedAnyLength(ein) == IsDigit(CleanEin(ein))

\* not (not ein_clean.isdigit() or len(ein_clean) != 9)
EinAccepted(ein) == IsDigit(CleanEin(ein)) /\ Len(CleanEin(ein)) = EinLen

\* The EIN arguments the callers pass.
EinInputs ==
    { <<"1","2","3","4","5","6","7","8","9">>,
      <<" ","1","2","-","3","4","5","6","7","8","9"," ">>,
      <<"1","2","3","-","4","5","-","6","7","8","9","\n">>,
      <<>>,
      <<"-">>,
      <<"1","2","3","4","5">>,
      <<"1","2","3","4","5","6","7","8","9","0">>,
      <<"1","2","-","3","4","5","6","7","8","a">>,
      <<"1","2"," ","3","4","5","6","7","8","9">> }

----------------------------------------------------------------------------
\* Upstream replies to one GET.
Responses == {"ok", "badjson", "http404", "http500", "neterr"}

\* e.response.status_code; 0 where there is no status (no response at all)
StatusCode(r) ==
    CASE r = "ok" -> 200
      [] r = "badjson" -> 200
      [] r = "http404" -> 404
      [] r = "http500" -> 500
      [] OTHER -> 0

NoAcq == [count |-> -1, oldest |-> -1, waited |-> -1, recorded |-> -1]

VARIABLES
    requests,      \* RateLimiter.requests: the ages of the tracked timestamps
    lockHolder,    \* RateLimiter._lock: the caller holding it, or NoProc
    waiters,       \* RateLimiter._lock: callers queued for it, oldest first
    pc,            \* where each operation is suspended
    ein_clean,     \* the operation's ein_clean
    retry_count,   \* _make_request's retry_count
    now_age,       \* acquire()'s local now, as its age
    sleepLeft,     \* seconds left of the asyncio.sleep the caller is in
    outcome,       \* how the operation ended
    status_code,   \* ProPublicaAPIError.status_code (0: None)
    nAcquire,      \* completed acquire() calls of the operation
    nGet,          \* GETs the operation issued
    n5xx,          \* server-error replies (status >= 500) it received
    nNetErr,       \* GETs of it that failed without a reply
    last_resp,     \* the outcome of its latest GET
    waits,         \* the backoff waits the operation took, in order
    acq,           \* what the caller's latest acquire() saw and recorded
    returns,       \* ages of the acquire() returns inside the window
    arg,           \* the argument a tool or a normalizer is applied to
    call           \* what the tool or the normalizer made of it

vars == <<requests, lockHolder, waiters, pc, ein_clean, retry_count, now_age,
          sleepLeft, outcome, status_code, nAcquire, nGet, n5xx, nNetErr,
          last_resp, waits, acq, returns, arg, call>>

limiterVars == <<requests, lockHolder, waiters>>
callVars == <<ein_clean>>
requestVars == <<retry_count, outcome, status_code, n5xx, nNetErr, last_resp,
                 waits>>
applyVars == <<arg, call>>

\* Nothing is being normalized.
NoArg == [kind |-> "none"]
NoCall == [fn |-> "none"]

\* The client after construction: no request tracked, no operation begun.
Constructed ==
    /\ requests = <<>>
    /\ lockHolder = NoProc
    /\ waiters = <<>>
    /\ pc = [p \in Procs |-> "idle"]
    /\ ein_clean = [p \in Procs |-> <<>>]
    /\ retry_count = [p \in Procs |-> 0]
    /\ now_age = [p \in Procs |-> 0]
    /\ sleepLeft = [p \in Procs |-> 0]
    /\ outcome = [p \in Procs |-> "none"]
    /\ status_code = [p \in Procs |-> 0]
    /\ nAcquire = [p \in Procs |-> 0]
    /\ nGet = [p \in Procs |-> 0]
    /\ n5xx = [p \in Procs |-> 0]
    /\ nNetErr = [p \in Procs |-> 0]
    /\ last_resp = [p \in Procs |-> "none"]
    /\ waits = [p \in Procs |-> <<>>]
    /\ acq = [p \in Procs |-> NoAcq]
    /\ returns = <<>>

Init ==
    /\ Constructed
    /\ arg = NoArg
    /\ call = NoCall

----------------------------------------------------------------------------
\* RateLimiter.acquire

\* [req_time for req_time in self.requests if now - req_time < self.time_window]
InWindow(reqs) == SelectSeq(reqs, LAMBDA a : a < time_window)

\* now - min(self.requests): the age of the oldest tracked timestamp
RECURSIVE OldestAge(_)
OldestAge(reqs) ==
    IF reqs = <<>> THEN 0 ELSE Max(Head(reqs), OldestAge(Tail(reqs)))

\* A wait of the whole window, whatever the age of the oldest timestamp.
WaitTimeWholeWindow(reqs) == time_window

\* wait_time = self.time_window - (now - oldest_request)
WaitTime(reqs) == time_window - OldestAge(reqs)

\* The budget test with > for >=.
MustSleepOverBudget(reqs) == Len(reqs) > max_requests /\ WaitTime(reqs) > 0

\* len(self.requests) >= self.max_requests, and then wait_time > 0
MustSleep(reqs) == Len(reqs) >= max_requests /\ WaitTime(reqs) > 0

\* acquire() without the lock.
LockIgnored == TRUE

\* A lock that is taken at once whenever it is free, queued callers or not.
LockFreeBarging == lockHolder = NoProc

\* asyncio.Lock.acquire takes the lock at once only if it is free and nobody
\* is queued for it.
LockFree == lockHolder = NoProc /\ waiters = <<>>

\* self.requests.append(now), the lock is released, acquire() returns and
\* _make_request goes on to client.get, where it suspends.
\* recordedAge: the age of the timestamp that is appended.
AcquireReturns(p, reqs, seen, recordedAge) ==
    /\ requests' = Append(reqs, recordedAge)
    /\ lockHolder' = NoProc
    /\ pc' = [pc EXCEPT ![p] = "get"]
    /\ now_age' = [now_age EXCEPT ![p] = 0]
    /\ sleepLeft' = [sleepLeft EXCEPT ![p] = 0]
    /\ nAcquire' = [nAcquire EXCEPT ![p] = @ + 1]
    /\ nGet' = [nGet EXCEPT ![p] = @ + 1]
    /\ acq' = [acq EXCEPT ![p] = [seen EXCEPT !.recorded = recordedAge]]
    /\ returns' = Append(returns, 0)

\* The body of acquire() under the lock, up to its first suspension:
\* read now, prune, count; sleep holding the lock, or record and return.
CheckBudget(p) ==
    LET live == InWindow(requests)
        seen == [count |-> Len(live), oldest |-> OldestAge(live),
                 waited |-> 0, recorded |-> -1]
    IN  IF MustSleep(live)
        THEN /\ requests' = live
             /\ lockHolder' = p
             /\ pc' = [pc EXCEPT ![p] = "ratesleep"]
             /\ now_age' = [now_age EXCEPT ![p] = 0]
             /\ sleepLeft' = [sleepLeft EXCEPT ![p] = WaitTime(live)]
             /\ acq' = [acq EXCEPT ![p] = seen]
             /\ UNCHANGED <<nAcquire, nGet, returns>>
        ELSE AcquireReturns(p, live, seen, 0)

\* await self.rate_limiter.acquire(), from the call to the first suspension.
EnterAcquire(p) ==
    IF LockFree
    THEN CheckBudget(p) /\ UNCHANGED waiters
    ELSE /\ waiters' = Append(waiters, p)
         /\ pc' = [pc EXCEPT ![p] = "waitlock"]
         /\ acq' = [acq EXCEPT ![p] = NoAcq]
         /\ UNCHANGED <<requests, lockHolder, now_age, sleepLeft,
                        nAcquire, nGet, returns>>

\* The lock was released and the first queued caller resumes with it.
LockGranted(p) ==
    /\ pc[p] = "waitlock"
    /\ lockHolder = NoProc
    /\ waiters # <<>> /\ Head(waiters) = p
    /\ waiters' = Tail(waiters)
    /\ CheckBudget(p)
    /\ UNCHANGED <<callVars, requestVars, applyVars>>

\* asyncio.sleep(wait_time) is over: append now (read before the sleep),
\* release the lock and return.
RateWake(p) ==
    /\ pc[p] = "ratesleep"
    /\ sleepLeft[p] = 0
    /\ AcquireReturns(p, requests, [acq[p] EXCEPT !.waited = now_age[p]],
                      now_age[p])
    /\ UNCHANGED <<waiters, callVars, requestVars, applyVars>>

----------------------------------------------------------------------------
\* ProPublicaClient

\* Clean and validate the EIN, then
\* _make_request(f"/organizations/{ein_clean}.json") with retry_count = 0.
CleanAndRequest(p, e) ==
    /\ pc[p] = "idle"
    /\ ein_clean' = [ein_clean EXCEPT ![p] = CleanEin(e)]
    /\ UNCHANGED applyVars
    /\ IF EinAccepted(e)
       THEN /\ EnterAcquire(p)
            /\ UNCHANGED requestVars
       ELSE /\ pc' = [pc EXCEPT ![p] = "done"]
            /\ outcome' = [outcome EXCEPT ![p] = "InvalidEIN"]
            /\ UNCHANGED <<limiterVars, retry_count, status_code, n5xx, nNetErr,
                           last_resp, waits, now_age, sleepLeft, nAcquire, nGet, acq, returns>>

\* get_organization(ein), up to its first suspension
get_organization(p, e) == CleanAndRequest(p, e)

\* get_organization_filings(ein, year), up to its first suspension
get_organization_filings(p, e) == CleanAndRequest(p, e)

\* Retry rules with a slip in the status test or in the retry bound.
RetryAnyErrorStatus(r, rc) == StatusCode(r) >= 400 /\ rc < max_retries
RetryServerErrorOneLess(r, rc) == StatusCode(r) >= 500 /\ rc < max_retries - 1
RetryServerErrorOneMore(r, rc) == StatusCode(r) >= 500 /\ rc <= max_retries
RetryRequestErrorOneMore(rc) == rc <= max_retries

\* except httpx.HTTPStatusError: status >= 500 and retry_count < max_retries
RetryServerError(r, rc) == StatusCode(r) >= 500 /\ rc < max_retries

\* except httpx.RequestError: retry_count < max_retries
RetryRequestError(rc) == rc < max_retries

\* A backoff that grows by one second per retry.
BackoffTimeLinear(rc) == rc + 1

\* wait_time = 2 ** retry_count
BackoffTime(rc) == 2 ^ rc

\* raise ProPublicaAPIError(message, status_code)
Raise(p, code) ==
    /\ pc' = [pc EXCEPT ![p] = "done"]
    /\ outcome' = [outcome EXCEPT ![p] = "APIError"]
    /\ status_code' = [status_code EXCEPT ![p] = code]
    /\ UNCHANGED <<sleepLeft, waits>>

\* asyncio.sleep(wait_time) before the retry
Backoff(p) ==
    /\ pc' = [pc EXCEPT ![p] = "backoff"]
    /\ sleepLeft' = [sleepLeft EXCEPT ![p] = BackoffTime(retry_count[p])]
    /\ waits' = [waits EXCEPT ![p] = Append(@, BackoffTime(retry_count[p]))]
    /\ UNCHANGED <<outcome, status_code>>

\* client.get returns or raises; raise_for_status, response.json and the
\* except clauses of _make_request.
Respond(p, r) ==
    /\ pc[p] = "get"
    /\ last_resp' = [last_resp EXCEPT ![p] = r]
    /\ n5xx' = [n5xx EXCEPT ![p] = IF StatusCode(r) >= 500 THEN @ + 1 ELSE @]
    /\ nNetErr' = [nNetErr EXCEPT ![p] = IF r = "neterr" THEN @ + 1 ELSE @]
    /\ acq' = [acq EXCEPT ![p] = NoAcq]
    /\ CASE r = "ok" ->
              /\ pc' = [pc EXCEPT ![p] = "done"]
              /\ outcome' = [outcome EXCEPT ![p] = "ok"]
              /\ UNCHANGED <<status_code, sleepLeft, waits>>
         [] r = "badjson" -> Raise(p, 0)
         [] r \in {"http404", "http500"} ->
              IF RetryServerError(r, retry_count[p])
              THEN Backoff(p)
              ELSE Raise(p, StatusCode(r))
         [] r = "neterr" ->
              IF RetryRequestError(retry_count[p])
              THEN Backoff(p)
              ELSE Raise(p, 0)
    /\ UNCHANGED <<limiterVars, callVars, retry_count, now_age, nAcquire,
                   nGet, returns, applyVars>>

\* A retry that goes to client.get without acquire().
BackoffWakeNoAcquire(p) ==
    /\ pc[p] = "backoff"
    /\ sleepLeft[p] = 0
    /\ retry_count' = [retry_count EXCEPT ![p] = @ + 1]
    /\ pc' = [pc EXCEPT ![p] = "get"]
    /\ nGet' = [nGet EXCEPT ![p] = @ + 1]
    /\ UNCHANGED <<limiterVars, callVars, outcome, status_code, n5xx, nNetErr,
                   last_resp, waits, now_age, sleepLeft, nAcquire, acq,
                   returns, applyVars>>

\* The backoff sleep is over:
\* return await self._make_request(endpoint, params, retry_count + 1)
BackoffWake(p) ==
    /\ pc[p] = "backoff"
    /\ sleepLeft[p] = 0
    /\ retry_count' = [retry_count EXCEPT ![p] = @ + 1]
    /\ EnterAcquire(p)
    /\ UNCHANGED <<callVars, outcome, status_code, n5xx, nNetErr, last_resp,
                   waits, applyVars>>

----------------------------------------------------------------------------
\* One second passes.
Age(a) == Min(a + 1, time_window)

Tick ==
    /\ requests' = [i \in 1..Len(requests) |-> Age(requests[i])]
    /\ now_age' = [p \in Procs |->
                     IF pc[p] = "ratesleep" THEN Age(now_age[p]) ELSE now_age[p]]
    /\ sleepLeft' = [p \in Procs |-> Max(sleepLeft[p] - 1, 0)]
    /\ returns' = SelectSeq([i \in 1..Len(returns) |-> returns[i] + 1],
                            LAMBDA a : a < time_window)
    /\ UNCHANGED <<lockHolder, waiters, pc, callVars, requestVars,
                   nAcquire, nGet, acq, applyVars>>

Next ==
    \/ \E p \in Procs, e \in EinInputs : get_organization(p, e)
    \/ \E p \in Procs, e \in EinInputs : get_organization_filings(p, e)
    \/ \E p \in Procs : LockGranted(p)
    \/ \E p \in Procs : RateWake(p)
    \/ \E p \in Procs, r \in Responses : Respond(p, r)
    \/ \E p \in Procs : BackoffWake(p)
    \/ Tick

Spec == Init /\ [][Next]_vars

\* Sleeps end, queued callers resume and every GET is answered.
Fairness ==
    /\ WF_vars(Tick)
    /\ \A p \in Procs :
         /\ WF_vars(LockGranted(p))
         /\ WF_vars(RateWake(p))
         /\ WF_vars(BackoffWake(p))
         /\ WF_vars(\E r \in Responses : Respond(p, r))

\* The system in which one operation meets every upstream failure while the
\* GETs of the operations running beside it succeed.
Unreliable == CHOOSE p \in Procs : \A q \in Procs : p <= q

NextLive ==
    \/ \E p \in Procs, e \in EinInputs : get_organization(p, e)
    \/ \E p \in Procs, e \in EinInputs : get_organization_filings(p, e)
    \/ \E p \in Procs : LockGranted(p)
    \/ \E p \in Procs : RateWake(p)
    \/ \E r \in Responses : Respond(Unreliable, r)
    \/ \E p \in Procs \ {Unreliable} : Respond(p, "ok")
    \/ \E p \in Procs : BackoffWake(p)
    \/ Tick

FairSpec == Init /\ [][NextLive]_vars /\ Fairness

----------------------------------------------------------------------------
\* The MCP tools and the response normalizers, applied to one argument.
\* arg is the argument; call is what the tool or the normalizer made of it.

sysVars == <<requests, lockHolder, waiters, pc, ein_clean, retry_count,
             now_age, sleepLeft, outcome, status_code, nAcquire, nGet, n5xx,
             nNetErr, last_resp, waits, acq, returns>>

\* How many hyphens an EIN argument is written with, at most.
MaxHyphens == 2

\* s with a hyphen put in after each position of H (0: before the first
\* character).
RECURSIVE Hyphenate(_, _, _)
Hyphenate(s, H, i) ==
    IF i > Len(s) THEN <<>>
    ELSE (IF i > 0 THEN <<s[i]>> ELSE <<>>)
           \o (IF i \in H THEN <<"-">> ELSE <<>>)
           \o Hyphenate(s, H, i + 1)

HyphenPlacements(s) ==
    {H \in SUBSET (0..Len(s)) : Cardinality(H) <= MaxHyphens}

\* The digit groups callers pass: EINs, and texts of 8 and of 10 digits, with
\* a letter, with whitespace inside, and the empty text.
EinBodies ==
    { <<"1","2","3","4","5","6","7","8","9">>,
      <<"0","0","0","0","0","0","0","0","1">>,
      <<"1","2","3","4","5","6","7","8">>,
      <<"1","2","3","4","5","6","7","8","9","0">>,
      <<"1","2","3","4","5","6","7","8","a">>,
      <<"1","2","3","4"," ","5","6","7","8","9">>,
      <<>> }

Pads == {<<>>, <<" ">>, <<"\n">>, <<"\t">>}

\* The EIN arguments of the tools: a digit group with whitespace around it
\* and hyphens anywhere.
EinTexts ==
    UNION { { Hyphenate(pre \o b \o post, H, 0) :
                H \in HyphenPlacements(pre \o b \o post) } :
            pre \in Pads, b \in EinBodies, post \in Pads }

\* The tools that take an EIN.
EinTools ==
    {"get_organization", "get_organization_filings",
     "analyze_nonprofit_financials", "search_similar_nonprofits",
     "export_nonprofit_data"}

\* A tool's cleaning without the strip().
ToolCleanEinNoStrip(ein) == RemoveHyphens(ein)

\* clean_ein = ein.replace("-", "").strip()
ToolCleanEin(ein) == Strip(RemoveHyphens(ein))

\* not (not clean_ein.isdigit() or len(clean_ein) != 9)
ToolEinAccepted(ein) ==
    IsDigit(ToolCleanEin(ein)) /\ Len(ToolCleanEin(ein)) = EinLen

\* An EIN tool up to its first await: clean and validate the argument, then
\* return the error document or call the client with clean_ein; the client
\* cleans and validates what it is given before it requests anything.
ToolCleansEin(tool) ==
    /\ arg.kind = "ein"
    /\ call = NoCall
    /\ call' =
         IF ToolEinAccepted(arg.v)
         THEN [fn |-> tool, error |-> "none", client_called |-> TRUE,
               client_arg |-> ToolCleanEin(arg.v),
               ein_clean |-> CleanEin(ToolCleanEin(arg.v)),
               client_accepted |-> EinAccepted(ToolCleanEin(arg.v))]
         ELSE [fn |-> tool, error |-> "Invalid EIN format",
               client_called |-> FALSE, client_arg |-> <<>>,
               ein_clean |-> <<>>, client_accepted |-> FALSE]
    /\ UNCHANGED <<arg, sysVars>>

\* The client called with the argument as it is: the cleaning and the
\* validation of get_organization and get_organization_filings.
ClientCleansEin ==
    /\ arg.kind = "ein"
    /\ call = NoCall
    /\ call' = [fn |-> "client", error |-> IF EinAccepted(arg.v) THEN "none"
                                        ELSE "Invalid EIN format",
                client_called |-> TRUE, client_arg |-> arg.v,
                ein_clean |-> CleanEin(arg.v),
                client_accepted |-> EinAccepted(arg.v)]
    /\ UNCHANGED <<arg, sysVars>>

----------------------------------------------------------------------------
\* Python values as the JSON decoder and the callers give them: a type and,
\* in a field named after the type, the value.

PyNone == [t |-> "None"]
PyInt(n) == [t |-> "int", i |-> n]
PyStr(s) == [t |-> "str", s |-> s]
\* a float is kept as its number of tenths
PyFloat(x) == [t |-> "float", f |-> x]
PyList(l) == [t |-> "list", l |-> l]

\* bool(x): the test of "if x:"
Truthy(x) ==
    CASE x.t = "None" -> FALSE
      [] x.t = "int" -> x.i # 0
      [] x.t = "str" -> x.s # <<>>
      [] x.t = "float" -> x.f # 0
      [] x.t = "list" -> x.l # <<>>
      [] x.t = "dict" -> \E k \in DOMAIN x.d : x.d[k].t # "missing"
      [] OTHER -> TRUE

LowerLetters == <<"a", "b", "c", "d", "e", "f", "g", "h", "i", "j", "k", "l", "m", "n", "o", "p", "q", "r", "s", "t", "u", "v", "w", "x", "y", "z">>
UpperLetters == <<"A", "B", "C", "D", "E", "F", "G", "H", "I", "J", "K", "L", "M", "N", "O", "P", "Q", "R", "S", "T", "U", "V", "W", "X", "Y", "Z">>

\* str.upper(), character by character
UpperChar(c) ==
    IF \E i \in 1..Len(LowerLetters) : LowerLetters[i] = c
    THEN UpperLetters[CHOOSE i \in 1..Len(LowerLetters) : LowerLetters[i] = c]
    ELSE c

Upper(s) == [i \in 1..Len(s) |-> UpperChar(s[i])]

----------------------------------------------------------------------------
\* Reference sets of models.py

NTEE_CATEGORIES == 1..10

SUBSECTION_CODES == (2..19) \cup {21, 22, 23, 25, 26, 27, 28, 92}

FORM_TYPES == {"990", "990EZ", "990PF", "990T"}

US_STATES ==
    {
      <<"A","L">>, <<"A","K">>, <<"A","Z">>, <<"A","R">>, <<"C","A">>, <<"C","O">>,
      <<"C","T">>, <<"D","E">>, <<"F","L">>, <<"G","A">>, <<"H","I">>, <<"I","D">>,
      <<"I","L">>, <<"I","N">>, <<"I","A">>, <<"K","S">>, <<"K","Y">>, <<"L","A">>,
      <<"M","E">>, <<"M","D">>, <<"M","A">>, <<"M","I">>, <<"M","N">>, <<"M","S">>,
      <<"M","O">>, <<"M","T">>, <<"N","E">>, <<"N","V">>, <<"N","H">>, <<"N","J">>,
      <<"N","M">>, <<"N","Y">>, <<"N","C">>, <<"N","D">>, <<"O","H">>, <<"O","K">>,
      <<"O","R">>, <<"P","A">>, <<"R","I">>, <<"S","C">>, <<"S","D">>, <<"T","N">>,
      <<"T","X">>, <<"U","T">>, <<"V","T">>, <<"V","A">>, <<"W","A">>, <<"W","V">>,
      <<"W","I">>, <<"W","Y">>, <<"D","C">>, <<"Z","Z">> }

----------------------------------------------------------------------------
\* search_organizations, from the call to its _make_request

\* The largest category or subsection code a caller passes that is not a code
\* of the reference sets.
MaxCode == 12

StateArgs ==
    { PyNone, PyStr(<<>>), PyStr(<<"N","Y">>), PyStr(<<"n","y">>),
      PyStr(<<"D","C">>), PyStr(<<"Z","Z">>), PyStr(<<"X","X">>),
      PyStr(<<"N">>), PyStr(<<"N","Y","C">>), PyStr(<<"N","Y"," ">>) }

NteeArgs == {PyNone} \cup {PyInt(n) : n \in -1..MaxCode}

SubsectionArgs ==
    {PyNone} \cup {PyInt(n) : n \in (-1..MaxCode)
                                     \cup {19, 20, 21, 24, 28, 29, 91, 92, 93}}

QueryArgs == {PyNone, PyStr(<<"r","e","d">>)}

SearchArgs ==
    [query : QueryArgs, state : StateArgs, ntee_category : NteeArgs,
     subsection_code : SubsectionArgs, page : {0, 2}]

NoParams == [q |-> PyNone, page |-> PyNone, state_id |-> PyNone,
             ntee_id |-> PyNone, c_code_id |-> PyNone]

\* "if state:", "if ntee_category:", "if subsection_code:"
FilterSupplied(x) == Truthy(x)

\* The first of the three filter tests that fails, in the order of the code.
FilterError(a) ==
    CASE FilterSupplied(a.state) /\ Upper(a.state.s) \notin US_STATES ->
             "Invalid state code"
      [] FilterSupplied(a.ntee_category)
           /\ a.ntee_category.i \notin NTEE_CATEGORIES ->
             "Invalid NTEE category"
      [] FilterSupplied(a.subsection_code)
           /\ a.subsection_code.i \notin SUBSECTION_CODES ->
             "Invalid subsection code"
      [] OTHER -> "none"

\* params as it is given to _make_request
SearchParams(a) ==
    [q |-> IF Truthy(a.query) THEN a.query ELSE PyNone,
     page |-> IF a.page > 0 THEN PyInt(a.page) ELSE PyNone,
     state_id |-> IF FilterSupplied(a.state) THEN PyStr(Upper(a.state.s))
                  ELSE PyNone,
     ntee_id |-> IF FilterSupplied(a.ntee_category) THEN a.ntee_category
                 ELSE PyNone,
     c_code_id |-> IF FilterSupplied(a.subsection_code)
                   THEN a.subsection_code ELSE PyNone]

\* search_organizations up to its first await: build params and validate the
\* filters, then raise or call _make_request("/search.json", params).
SearchValidates ==
    /\ arg.kind = "search"
    /\ call = NoCall
    /\ call' =
         IF FilterError(arg.v) # "none"
         THEN [fn |-> "search_organizations", raised |-> FilterError(arg.v),
               requested |-> FALSE, params |-> NoParams]
         ELSE [fn |-> "search_organizations", raised |-> "none",
               requested |-> TRUE, params |-> SearchParams(arg.v)]
    /\ UNCHANGED <<arg, sysVars>>

----------------------------------------------------------------------------
\* _parse_organization and the NonprofitOrganization model.
\* A raw record is a dict: a function from its keys to Python values, with
\* PyMissing for a key the record does not have.  A text is a tuple of
\* characters (EIN, subsection code) or of lexical tokens (timestamp).

PyMissing == [t |-> "missing"]
PyDict(d) == [t |-> "dict", d |-> d]
PyDatetime(local, offset) ==
    [t |-> "datetime", dt |-> [local |-> local, offset |-> offset]]

\* dict.get(key)
Get(d, k) == IF d[k] = PyMissing THEN PyNone ELSE d[k]

DigitChar(k) == <<"0", "1", "2", "3", "4", "5", "6", "7", "8", "9">>[k + 1]

RECURSIVE NatToStr(_)
NatToStr(n) ==
    IF n < 10 THEN <<DigitChar(n)>>
    ELSE NatToStr(n \div 10) \o <<DigitChar(n % 10)>>

\* str(n) of an int
IntToStr(n) == IF n < 0 THEN <<"-">> \o NatToStr(-n) ELSE NatToStr(n)

Zeros(n) == [i \in 1..n |-> "0"]

\* str.zfill(width): zeros on the left, after a leading sign
ZFill(s, width) ==
    IF Len(s) >= width THEN s
    ELSE IF s # <<>> /\ Head(s) \in {"+", "-"}
         THEN <<Head(s)>> \o Zeros(width - Len(s)) \o Tail(s)
         ELSE Zeros(width - Len(s)) \o s

\* The local date-times and UTC offsets of the timestamps upstream sends.
IsoLocalTimes == {"2024-01-15T10:30:00", "2023-06-30"}
IsoOffsets == {"+00:00"}

\* str.replace('Z', '+00:00'), token by token
ReplaceZ(s) == [i \in 1..Len(s) |-> IF s[i] = "Z" THEN "+00:00" ELSE s[i]]

\* datetime.fromisoformat succeeds
IsIsoFormat(s) ==
    \/ Len(s) = 1 /\ s[1] \in IsoLocalTimes
    \/ Len(s) = 2 /\ s[1] \in IsoLocalTimes /\ s[2] \in IsoOffsets

\* datetime.fromisoformat(s), where it succeeds
FromIsoFormat(s) ==
    PyDatetime(s[1], IF Len(s) = 2 THEN s[2] ELSE "naive")

\* re.match(r'^\d{9}$', s): 9 digits, and "$" also matches before a final
\* newline
MatchesNineDigits(s) ==
    /\ Len(s) \in {EinLen, EinLen + 1}
    /\ \A i \in 1..EinLen : s[i] \in Digits
    /\ Len(s) = EinLen + 1 => s[EinLen + 1] = "\n"

\* validate_ein raises: v and not re.match(r'^\d{9}$', str(v).replace('-', ''))
EinValidatorRaises(v) == v # <<>> /\ ~MatchesNineDigits(RemoveHyphens(v))

\* A str field accepts a str only; an Optional[str] field also None and,
\* having a default, its absence.
IsStrField(x) == x.t = "str"
IsOptionalStrField(x) == x.t \in {"str", "None", "missing"}

\* pydantic's own reading of an Optional[datetime] field: a datetime, None,
\* absence, a number (seconds since the epoch, kept in tenths) or a text in
\* ISO format.
IsOptionalDatetimeField(x) ==
    \/ x.t \in {"datetime", "None", "missing", "int", "float"}
    \/ x.t = "str" /\ IsIsoFormat(ReplaceZ(x.s))

DatetimeField(x) ==
    CASE x.t \in {"None", "missing"} -> PyNone
      [] x.t = "datetime" -> x
      [] x.t = "str" -> FromIsoFormat(ReplaceZ(x.s))
      [] x.t = "int" -> [t |-> "datetime", epoch |-> 10 * x.i]
      [] OTHER -> [t |-> "datetime", epoch |-> x.f]

\* The field of the entity for an Optional[str] key.
StrField(x) == IF x.t = "missing" THEN PyNone ELSE x

\* if org_data.get('updated'): try fromisoformat(..replace('Z', '+00:00'))
\* except (ValueError, AttributeError): None.  A datetime has a replace() that
\* takes no text: TypeError, which nothing catches.
UpdatedRaisesTypeError(d) == Get(d, "updated").t = "datetime"

ParsedUpdated(d) ==
    LET u == Get(d, "updated")
    IN  IF ~Truthy(u) THEN d["updated"]
        ELSE IF u.t = "str" /\ IsIsoFormat(ReplaceZ(u.s))
             THEN FromIsoFormat(ReplaceZ(u.s))
             ELSE PyNone

\* if org_data.get('ein'): an int becomes str(ein).zfill(9), a str
\* ein.zfill(9)
PaddedEin(d) ==
    LET e == Get(d, "ein")
    IN  IF ~Truthy(e) THEN d["ein"]
        ELSE IF e.t = "int" THEN PyStr(ZFill(IntToStr(e.i), EinLen))
        ELSE IF e.t = "str" THEN PyStr(ZFill(e.s, EinLen))
        ELSE e

\* if org_data.get('subseccd') and isinstance(.., int): str(subseccd)
ConvertedSubseccd(d) ==
    LET c == Get(d, "subseccd")
    IN  IF Truthy(c) /\ c.t = "int" THEN PyStr(IntToStr(c.i))
        ELSE d["subseccd"]

\* org_data as _parse_organization leaves it (it is changed in place)
OrgDataLeft(d) ==
    [d EXCEPT !["updated"] = ParsedUpdated(d),
              !["ein"] = PaddedEin(d),
              !["subseccd"] = ConvertedSubseccd(d)]

\* NonprofitOrganization(**org_data) raises no ValidationError
OrganizationValidates(d) ==
    /\ IsStrField(d["ein"])
    /\ ~EinValidatorRaises(d["ein"].s)
    /\ IsStrField(d["name"])
    /\ IsOptionalDatetimeField(d["updated"])
    /\ IsOptionalStrField(d["subseccd"])
    /\ IsOptionalStrField(d["zipcode"])

\* The NonprofitOrganization that is constructed; validate_ein returns the
\* value it was given.
Organization(d) ==
    [ein |-> d["ein"].s,
     name |-> d["name"].s,
     updated |-> DatetimeField(d["updated"]),
     subseccd |-> StrField(d["subseccd"]),
     zipcode |-> StrField(d["zipcode"])]

NoOrganization == [ein |-> <<>>, name |-> <<>>, updated |-> PyNone,
                   subseccd |-> PyNone, zipcode |-> PyNone]

\* _parse_organization(org_data): what it raises, the entity it returns and
\* the record it leaves.  Only ValidationError is turned into
\* ProPublicaAPIError; a fragment that is no dict has no get().
ParseOrganization(x) ==
    IF x.t # "dict"
    THEN [raised |-> "AttributeError", org |-> NoOrganization, left |-> x]
    ELSE IF UpdatedRaisesTypeError(x.d)
    THEN [raised |-> "TypeError", org |-> NoOrganization, left |-> x]
    ELSE IF ~OrganizationValidates(OrgDataLeft(x.d))
    THEN [raised |-> "Invalid organization data", org |-> NoOrganization,
          left |-> PyDict(OrgDataLeft(x.d))]
    ELSE [raised |-> "none", org |-> Organization(OrgDataLeft(x.d)),
          left |-> PyDict(OrgDataLeft(x.d))]

\* The raw organizations upstream sends.
EinValues ==
    { PyMissing, PyNone, PyInt(123456789), PyInt(12345), PyInt(0),
      PyInt(1234567890), PyInt(-5),
      PyStr(<<"1","2","3","4","5","6","7","8","9">>),
      PyStr(<<"1","2","-","3","4","5","6","7","8","9">>),
      PyStr(<<"1","2","3","4","5">>),
      PyStr(<<"1","-","2","3","4","5">>),
      PyStr(<<>>),
      PyStr(<<"1","2","3","4","5","6","7","8","a">>),
      PyStr(<<"1","2","3","4","5","6","7","8","9","0">>),
      PyStr(<<"1","2","3","4","5","6","7","8","9","\n">>),
      PyFloat(1234567890) }

NameValues == {PyMissing, PyNone, PyStr(<<"R","e","d">>), PyInt(7)}

UpdatedValues ==
    { PyMissing, PyNone,
      PyStr(<<"2024-01-15T10:30:00", "Z">>),
      PyStr(<<"2024-01-15T10:30:00", "+00:00">>),
      PyStr(<<"2023-06-30">>),
      PyStr(<<"yesterday">>),
      PyStr(<<"2024-01-15T10:30:00", "Z", "Z">>),
      PyStr(<<>>),
      PyInt(1700000000),
      PyInt(0) }

SubseccdValues ==
    {PyMissing, PyNone, PyInt(3), PyInt(0), PyStr(<<"3">>), PyFloat(30)}

ZipcodeValues ==
    {PyMissing, PyNone, PyStr(<<"1","0","0","0","1">>), PyInt(10001)}

RawOrganizations ==
    { PyDict(d) : d \in [ein : EinValues, name : NameValues,
                         updated : UpdatedValues, subseccd : SubseccdValues,
                         zipcode : ZipcodeValues] }

NoResult == [raised |-> "not applied"]

\* _parse_organization applied to a raw organization.
parse_organization ==
    /\ arg.kind = "organization"
    /\ call = NoCall
    /\ call' = [fn |-> "_parse_organization", again |-> NoResult]
                 @@ ParseOrganization(arg.v)
    /\ UNCHANGED <<arg, sysVars>>

\* _parse_organization applied once more, to the record the first call left.
parse_organization_again ==
    /\ call # NoCall
    /\ call.fn = "_parse_organization"
    /\ call.raised = "none"
    /\ call.again = NoResult
    /\ call' = [call EXCEPT !.again = ParseOrganization(call.left)]
    /\ UNCHANGED <<arg, sysVars>>

----------------------------------------------------------------------------
\* search_organizations, from the reply of _make_request to its return

\* How many organization fragments a search reply holds, at most.
MaxFragments == 3

RawOrg(ein, name, zipcode) ==
    PyDict([ein |-> ein, name |-> name, updated |-> PyMissing,
            subseccd |-> PyMissing, zipcode |-> zipcode])

\* The fragments of the "organizations" array: two that normalize, one
\* without a name, one with an EIN of 10 digits, one with a numeric ZIP code,
\* and a null.
Fragments ==
    { RawOrg(PyInt(123456789), PyStr(<<"R","e","d">>), PyMissing),
      RawOrg(PyInt(12345), PyStr(<<"B","l","u","e">>),
             PyStr(<<"1","0","0","0","1">>)),
      RawOrg(PyInt(123456789), PyMissing, PyMissing),
      RawOrg(PyStr(<<"1","2","3","4","5","6","7","8","9","0">>),
             PyStr(<<"R","e","d">>), PyMissing),
      RawOrg(PyInt(123456789), PyStr(<<"R","e","d">>), PyInt(10001)),
      PyNone }

FragmentLists ==
    UNION { [1..n -> Fragments] : n \in 0..MaxFragments }

\* The reply to GET /search.json
SearchReplies ==
    [organizations : FragmentLists,
     total_results : {PyMissing, PyInt(0), PyInt(2), PyInt(50)},
     per_page : {PyMissing, PyInt(1), PyInt(2), PyInt(25)}]

\* data.get(key, default)
GetDefault(d, k, default) == IF d[k] = PyMissing THEN default ELSE d[k]

\* for org_data in data.get('organizations', []): append the organization,
\* or continue on ProPublicaAPIError; any other exception leaves the loop and
\* the search.
RECURSIVE ParsedOrganizations(_)
ParsedOrganizations(frags) ==
    IF frags = <<>> THEN [raised |-> "none", orgs |-> <<>>]
    ELSE LET r == ParseOrganization(Head(frags))
             rest == ParsedOrganizations(Tail(frags))
         IN  IF r.raised \notin {"none", "Invalid organization data"}
             THEN [raised |-> r.raised, orgs |-> <<>>]
             ELSE IF rest.raised # "none" THEN rest
             ELSE IF r.raised = "none"
                  THEN [raised |-> "none", orgs |-> <<r.org>> \o rest.orgs]
                  ELSE rest

\* SearchResult(total_results=data.get('total_results', 0), ...,
\* per_page=data.get('per_page', 25), ..., organizations=organizations)
SearchResult(data, orgs) ==
    [total_results |-> GetDefault(data, "total_results", PyInt(0)).i,
     per_page |-> GetDefault(data, "per_page", PyInt(25)).i,
     organizations |-> orgs]

NoSearchResult == [total_results |-> 0, per_page |-> 0, organizations |-> <<>>]

\* search_organizations after the reply: parse the fragments, build the
\* SearchResult and return it.
SearchAssembles ==
    /\ arg.kind = "reply"
    /\ call = NoCall
    /\ LET parsed == ParsedOrganizations(arg.v.organizations)
       IN  call' =
             IF parsed.raised # "none"
             THEN [fn |-> "search_organizations", raised |-> parsed.raised,
                   result |-> NoSearchResult]
             ELSE [fn |-> "search_organizations", raised |-> "none",
                   result |-> SearchResult(arg.v, parsed.orgs)]
    /\ UNCHANGED <<arg, sysVars>>

----------------------------------------------------------------------------
\* _parse_filing, _convert_form_type and the Filing model

\* A text of digits, with a sign or without.
IsIntText(s) ==
    LET body == IF s # <<>> /\ Head(s) \in {"+", "-"} THEN Tail(s) ELSE s
    IN  IsDigit(body)

RECURSIVE NatOfText(_)
NatOfText(s) ==
    IF s = <<>> THEN 0
    ELSE 10 * NatOfText(SubSeq(s, 1, Len(s) - 1))
           + (CHOOSE k \in 0..9 : DigitChar(k) = s[Len(s)])

\* int(s) of such a text
IntOfText(s) ==
    IF Head(s) = "-" THEN 0 - NatOfText(Tail(s))
    ELSE IF Head(s) = "+" THEN NatOfText(Tail(s))
    ELSE NatOfText(s)

\* str(x) of a number or a text
StrOf(x) ==
    CASE x.t = "int" -> IntToStr(x.i)
      [] x.t = "str" -> x.s
      [] x.t = "float" ->
           IntToStr(x.f \div 10) \o <<".">> \o <<DigitChar(x.f % 10)>>

\* float(x) raises ValueError (a text that is no number; of the texts
\* upstream sends, the numbers are those of digits) or TypeError (a list)
FloatRaises(x) ==
    CASE x.t \in {"int", "float"} -> FALSE
      [] x.t = "str" -> ~IsIntText(x.s)
      [] OTHER -> TRUE

\* float(x), where it does not raise
Float(x) ==
    CASE x.t = "int" -> PyFloat(10 * x.i)
      [] x.t = "float" -> x
      [] OTHER -> PyFloat(10 * IntOfText(x.s))

\* if field in filing_data and filing_data[field] is not None:
\*     try float(..) except (ValueError, TypeError): None
Coerced(x) ==
    IF x \in {PyMissing, PyNone} THEN x
    ELSE IF FloatRaises(x) THEN PyNone
    ELSE Float(x)

\* not ('tax_prd_yr' in filing_data)
TaxYearKeyAbsent(d) == d["tax_prd_yr"] = PyMissing

\* elif 'tax_prd' in filing_data and filing_data['tax_prd']
UsesTaxPeriod(d) == TaxYearKeyAbsent(d) /\ Truthy(Get(d, "tax_prd"))

\* filing_data['tax_year'] after the tax year block
DerivedTaxYear(d) ==
    IF ~TaxYearKeyAbsent(d) THEN d["tax_prd_yr"]
    ELSE IF UsesTaxPeriod(d)
    THEN LET tax_prd == StrOf(d["tax_prd"])
         IN  IF Len(tax_prd) < 4 THEN d["tax_year"]
             ELSE IF IsIntText(SubSeq(tax_prd, 1, 4))
                  THEN PyInt(IntOfText(SubSeq(tax_prd, 1, 4)))
                  ELSE PyNone
    ELSE d["tax_year"]

\* form_type_map.get(form_type_code, "990"); a float or a bool equal to a
\* key finds the key
ConvertFormType(code) ==
    LET n == CASE code.t = "int" -> code.i
               [] code.t = "float" /\ code.f % 10 = 0 -> code.f \div 10
               [] OTHER -> -1
    IN  CASE n = 0 -> PyStr(<<"990">>)
          [] n = 1 -> PyStr(<<"990EZ">>)
          [] n = 2 -> PyStr(<<"990PF">>)
          [] n = 3 -> PyStr(<<"990T">>)
          [] OTHER -> PyStr(<<"990">>)

\* dict.get raises TypeError for a key that cannot be hashed
Unhashable(x) == x.t \in {"list", "dict"}

ConvertsFormtype(d) == d["formtype"] # PyMissing
ConvertsFormTypeKey(d) ==
    d["formtype"] = PyMissing /\ d["form_type"].t = "int"

FormTypeRaisesTypeError(d) ==
    ConvertsFormtype(d) /\ Unhashable(d["formtype"])

\* filing_data['form_type'] after the form type block
DerivedFormType(d) ==
    IF ConvertsFormtype(d) THEN ConvertFormType(d["formtype"])
    ELSE IF ConvertsFormTypeKey(d) THEN ConvertFormType(d["form_type"])
    ELSE d["form_type"]

\* filing_data as _parse_filing leaves it (it is changed in place): numeric
\* fields coerced, tax_prd_yr popped, or else a truthy tax_prd popped, and
\* formtype popped.
FilingDataLeft(d) ==
    [d EXCEPT !["totrevenue"] = Coerced(d["totrevenue"]),
              !["totassetsend"] = Coerced(d["totassetsend"]),
              !["tax_year"] = DerivedTaxYear(d),
              !["tax_prd_yr"] = PyMissing,
              !["tax_prd"] = IF UsesTaxPeriod(d) THEN PyMissing
                             ELSE d["tax_prd"],
              !["form_type"] = DerivedFormType(d),
              !["formtype"] = PyMissing]

\* pydantic's reading of an Optional[int] field: an int, a float without
\* fraction, a text of digits, None or absence.
IsOptionalIntField(x) ==
    \/ x.t \in {"int", "None", "missing"}
    \/ x.t = "float" /\ x.f % 10 = 0
    \/ x.t = "str" /\ IsIntText(x.s)

IntField(x) ==
    CASE x.t \in {"None", "missing"} -> PyNone
      [] x.t = "int" -> x
      [] x.t = "float" -> PyInt(x.f \div 10)
      [] OTHER -> PyInt(IntOfText(x.s))

IsOptionalFloatField(x) == x.t \in {"float", "int", "None", "missing"}

FloatField(x) ==
    CASE x.t \in {"None", "missing"} -> PyNone
      [] x.t = "int" -> PyFloat(10 * x.i)
      [] OTHER -> x

\* Filing(**filing_data) raises no ValidationError
FilingValidates(d) ==
    /\ IsStrField(d["ein"])
    /\ IsOptionalIntField(d["tax_year"])
    /\ IsOptionalStrField(d["form_type"])
    /\ IsOptionalFloatField(d["totrevenue"])
    /\ IsOptionalFloatField(d["totassetsend"])

\* The Filing that is constructed
Filing(d) ==
    [ein |-> d["ein"].s,
     tax_year |-> IntField(d["tax_year"]),
     form_type |-> StrField(d["form_type"]),
     totrevenue |-> FloatField(d["totrevenue"]),
     totassetsend |-> FloatField(d["totassetsend"])]

NoFiling == [ein |-> <<>>, tax_year |-> PyNone, form_type |-> PyNone,
             totrevenue |-> PyNone, totassetsend |-> PyNone]

\* _parse_filing(filing_data): what it raises, the entity it returns and the
\* record it leaves.  Only ValidationError is turned into ProPublicaAPIError.
ParseFiling(x) ==
    IF x.t # "dict"
    THEN [raised |-> "TypeError", filing |-> NoFiling, left |-> x]
    ELSE IF FormTypeRaisesTypeError(x.d)
    THEN [raised |-> "TypeError", filing |-> NoFiling,
          left |-> PyDict([FilingDataLeft(x.d) EXCEPT
                              !["form_type"] = x.d["form_type"]])]
    ELSE IF ~FilingValidates(FilingDataLeft(x.d))
    THEN [raised |-> "Invalid filing data", filing |-> NoFiling,
          left |-> PyDict(FilingDataLeft(x.d))]
    ELSE [raised |-> "none", filing |-> Filing(FilingDataLeft(x.d)),
          left |-> PyDict(FilingDataLeft(x.d))]

\* The raw filings upstream sends.
RevenueValues ==
    { PyMissing, PyNone, PyInt(1000), PyFloat(10005),
      PyStr(<<"1","0","0","0">>), PyStr(<<"n","/","a">>), PyList(<<1>>) }

AssetsValues == {PyMissing, PyStr(<<"n","/","a">>)}

TaxPrdYrValues ==
    {PyMissing, PyNone, PyInt(2019), PyStr(<<"2","0","1","9">>),
     PyStr(<<"F","Y","1","9">>)}

TaxPrdValues ==
    { PyMissing, PyNone, PyInt(202212), PyStr(<<"2","0","2","2","1","2">>),
      PyInt(20), PyStr(<<"D","e","c","2","2">>), PyInt(0) }

FormtypeValues ==
    { PyMissing, PyNone, PyInt(0), PyInt(1), PyInt(2), PyInt(3), PyInt(4),
      PyInt(-1), PyStr(<<"990PF">>), PyList(<<1>>) }

FormTypeKeyValues ==
    {PyMissing, PyStr(<<"990">>), PyStr(<<"990N">>), PyInt(2), PyInt(7)}

RawFilings ==
    { PyDict(d) :
        d \in [ein : {PyStr(<<"1","2","3","4","5","6","7","8","9">>)},
               totrevenue : RevenueValues, totassetsend : AssetsValues,
               tax_prd_yr : TaxPrdYrValues, tax_prd : TaxPrdValues,
               formtype : FormtypeValues, form_type : FormTypeKeyValues,
               tax_year : {PyMissing}] }

\* _parse_filing applied to a raw filing.
parse_filing ==
    /\ arg.kind = "filing"
    /\ call = NoCall
    /\ call' = [fn |-> "_parse_filing", again |-> NoResult]
                 @@ ParseFiling(arg.v)
    /\ UNCHANGED <<arg, sysVars>>

\* _parse_filing applied once more, to the record the first call left.
parse_filing_again ==
    /\ call # NoCall
    /\ call.fn = "_parse_filing"
    /\ call.raised = "none"
    /\ call.again = NoResult
    /\ call' = [call EXCEPT !.again = ParseFiling(call.left)]
    /\ UNCHANGED <<arg, sysVars>>

----------------------------------------------------------------------------
\* get_organization_filings, from the reply of _make_request to its return

\* How many entries the "filings_with_data" array holds, at most.
MaxFilings == 3

NineDigits == <<"1","2","3","4","5","6","7","8","9">>
OtherNineDigits == <<"9","8","7","6","5","4","3","2","1">>

RawFiling(ein, tax_prd_yr, tax_prd, formtype) ==
    PyDict([ein |-> ein, totrevenue |-> PyMissing, totassetsend |-> PyMissing,
            tax_prd_yr |-> tax_prd_yr, tax_prd |-> tax_prd,
            formtype |-> formtype, form_type |-> PyMissing,
            tax_year |-> PyMissing])

\* The entries of the array: filings of 2019 and of 2022 that normalize
\* (one carrying another EIN, one carrying none), one without a year, one
\* whose year is no number, one whose form type is a list, and a null.
FilingFragments ==
    { RawFiling(PyStr(OtherNineDigits), PyInt(2019), PyMissing, PyInt(0)),
      RawFiling(PyMissing, PyMissing, PyInt(202212), PyInt(1)),
      RawFiling(PyInt(123456789), PyMissing, PyMissing, PyInt(2)),
      RawFiling(PyStr(NineDigits), PyStr(<<"F","Y","1","9">>), PyMissing,
                PyInt(0)),
      RawFiling(PyStr(NineDigits), PyInt(2022), PyMissing, PyList(<<1>>)),
      PyNone }

FilingLists ==
    UNION { [1..n -> FilingFragments] : n \in 0..MaxFilings }

\* The cleaned EIN of the call, the year filter, and the part of the reply
\* to GET /organizations/{ein}.json that the operation reads.
FilingsReplies ==
    [ein_clean : {NineDigits},
     year : {PyNone, PyInt(2019), PyInt(2022)},
     filings_with_data : {PyMissing, PyNone}
                           \cup {PyList(l) : l \in FilingLists}]

\* for filing_data in data['filings_with_data']: set the EIN, parse, keep the
\* filing if the year fits, or continue on ProPublicaAPIError; any other
\* exception leaves the loop and the operation.  An entry that is no object
\* cannot be assigned to: TypeError.
RECURSIVE ParsedFilings(_, _, _)
ParsedFilings(frags, clean, year) ==
    IF frags = <<>> THEN [raised |-> "none", filings |-> <<>>]
    ELSE LET filing_data == Head(frags)
             r == IF filing_data.t # "dict"
                  THEN [raised |-> "TypeError", filing |-> NoFiling]
                  ELSE ParseFiling(
                           PyDict([filing_data.d EXCEPT
                                      !["ein"] = PyStr(clean)]))
             rest == ParsedFilings(Tail(frags), clean, year)
         IN  IF r.raised \notin {"none", "Invalid filing data"}
             THEN [raised |-> r.raised, filings |-> <<>>]
             ELSE IF rest.raised # "none" THEN rest
             ELSE IF r.raised = "none"
                     /\ (year = PyNone \/ r.filing.tax_year = year)
                  THEN [raised |-> "none",
                        filings |-> <<r.filing>> \o rest.filings]
                  ELSE rest

\* get_organization_filings after the reply
GetOrganizationFilings(data) ==
    IF ~Truthy(Get(data, "filings_with_data"))
    THEN [raised |-> "none", filings |-> <<>>]
    ELSE ParsedFilings(data.filings_with_data.l, data.ein_clean, data.year)

FilingsAssemble ==
    /\ arg.kind = "filings"
    /\ call = NoCall
    /\ call' = [fn |-> "get_organization_filings"]
                 @@ GetOrganizationFilings(arg.v)
    /\ UNCHANGED <<arg, sysVars>>

----------------------------------------------------------------------------
\* get_organization, from the reply of _make_request to its return

\* The part of the reply to GET /organizations/{ein}.json that the operation
\* reads: the "organization" field absent, null, an empty list, an object
\* (the object without keys among them), or a list of one object.
OrganizationReplies ==
    [organization : {PyMissing, PyNone, PyList(<<>>)}
                      \cup RawOrganizations
                      \cup {PyList(<<x>>) : x \in RawOrganizations}]

\* data['organization'] taken as it is, lists included
GetOrganizationObjectOnly(data) ==
    IF ~Truthy(Get(data, "organization"))
    THEN [raised |-> "Organization not found", org |-> NoOrganization]
    ELSE LET r == ParseOrganization(data.organization)
         IN  [raised |-> r.raised, org |-> r.org]

\* if not data.get('organization'): raise ProPublicaAPIError(not found)
\* org_data = data['organization'][0] if it is a list else data['organization']
\* return self._parse_organization(org_data); every exception is raised on.
GetOrganization(data) ==
    IF ~Truthy(Get(data, "organization"))
    THEN [raised |-> "Organization not found", org |-> NoOrganization]
    ELSE LET org_data == IF data.organization.t = "list"
                         THEN Head(data.organization.l)
                         ELSE data.organization
             r == ParseOrganization(org_data)
         IN  [raised |-> r.raised, org |-> r.org]

OrganizationReturns ==
    /\ arg.kind = "entity"
    /\ call = NoCall
    /\ call' = [fn |-> "get_organization"] @@ GetOrganization(arg.v)
    /\ UNCHANGED <<arg, sysVars>>

----------------------------------------------------------------------------
\* get_organization_summary, from the outcomes of its two fetches

\* a / b of two floats, kept as the pair it is computed from
Quotient(a, b) == [t |-> "quotient", num |-> a.f, den |-> b.f]

\* A Filing as the summary reads it: the tax year and the four amounts.
FiledReturn(tax_year, totrevenue, totfuncexpns, totassetsend, totliabend) ==
    [tax_year |-> tax_year, totrevenue |-> totrevenue,
     totfuncexpns |-> totfuncexpns, totassetsend |-> totassetsend,
     totliabend |-> totliabend]

\* Filing.net_assets
net_assets(f) ==
    IF f.totassetsend # PyNone /\ f.totliabend # PyNone
    THEN PyFloat(f.totassetsend.f - f.totliabend.f)
    ELSE PyNone

\* Filing.expense_ratio
expense_ratio(f) ==
    IF f.totfuncexpns # PyNone /\ f.totrevenue # PyNone
       /\ f.totrevenue.f > 0
    THEN Quotient(f.totfuncexpns, f.totrevenue)
    ELSE PyNone

\* The filings get_organization_filings returned: of 2019, of 2021, two of
\* 2022 (one without assets, one without revenue to divide by), and two
\* without a year.
FiledReturns ==
    { FiledReturn(PyInt(2019), PyFloat(10000), PyFloat(8000), PyFloat(6000),
                  PyFloat(1000)),
      FiledReturn(PyInt(2021), PyNone, PyFloat(8000), PyFloat(6000),
                  PyFloat(7000)),
      FiledReturn(PyInt(2022), PyFloat(20000), PyFloat(5000), PyNone,
                  PyFloat(1000)),
      FiledReturn(PyInt(2022), PyFloat(0), PyFloat(8000), PyFloat(6000),
                  PyNone),
      FiledReturn(PyNone, PyFloat(10000), PyFloat(8000), PyFloat(6000),
                  PyFloat(1000)),
      FiledReturn(PyNone, PyNone, PyNone, PyNone, PyNone) }

FiledReturnLists ==
    UNION { [1..n -> FiledReturns] : n \in 0..MaxFilings }

\* What the two fetches give: each returns its value or raises.
Fetches ==
    [organization :
        [raised : {"none"}, org : {NineDigits, OtherNineDigits}]
          \cup [raised : {"Organization not found", "Invalid EIN format"},
                org : {<<>>}],
     filings :
        [raised : {"none"}, filings : FiledReturnLists]
          \cup [raised : {"Invalid EIN format", "TypeError"},
                filings : {<<>>}]]

\* key=lambda f: f.tax_year or 0
TaxYearKey(f) == IF Truthy(f.tax_year) THEN f.tax_year.i ELSE 0

\* The place list.sort(reverse=True) gives a filing that stood before all of
\* "sorted": behind the greater keys, before the equal and the smaller ones.
RECURSIVE InsertAscending(_, _)
InsertAscending(f, sorted) ==
    IF sorted = <<>> THEN <<f>>
    ELSE IF TaxYearKey(Head(sorted)) < TaxYearKey(f)
         THEN <<Head(sorted)>> \o InsertAscending(f, Tail(sorted))
         ELSE <<f>> \o sorted

RECURSIVE Insert(_, _)
Insert(f, sorted) ==
    IF sorted = <<>> THEN <<f>>
    ELSE IF TaxYearKey(Head(sorted)) > TaxYearKey(f)
         THEN <<Head(sorted)>> \o Insert(f, Tail(sorted))
         ELSE <<f>> \o sorted

\* filings.sort(key=lambda f: f.tax_year or 0, reverse=True), a stable sort
RECURSIVE SortedByTaxYear(_)
SortedByTaxYear(filings) ==
    IF filings = <<>> THEN <<>>
    ELSE Insert(Head(filings), SortedByTaxYear(Tail(filings)))

\* financial_summary of the most recent filing
FinancialSummary(recent_filing) ==
    [most_recent_year |-> recent_filing.tax_year,
     total_revenue |-> recent_filing.totrevenue,
     total_expenses |-> recent_filing.totfuncexpns,
     total_assets |-> recent_filing.totassetsend,
     net_assets |-> net_assets(recent_filing),
     expense_ratio |-> expense_ratio(recent_filing)]

NoSummary == [t |-> "None"]

\* [f.tax_year for f in filings if f.tax_year]
RECURSIVE FilingYears(_)
FilingYears(filings) ==
    IF filings = <<>> THEN <<>>
    ELSE (IF Truthy(Head(filings).tax_year)
          THEN <<Head(filings).tax_year.i>> ELSE <<>>)
           \o FilingYears(Tail(filings))

\* The dictionary get_organization_summary returns when both fetches
\* returned.
OrganizationSummary(org, fetched) ==
    LET filings == SortedByTaxYear(fetched)
    IN  [organization |-> org,
         filing_years |-> FilingYears(filings),
         total_filings |-> Len(filings),
         financial_summary |-> IF filings # <<>>
                               THEN FinancialSummary(filings[1])
                               ELSE NoSummary]

\* The exceptions asyncio.gather can raise on: that of the fetch that fails,
\* of the one that fails first if both do.
GatherRaises(fetches) ==
    {fetches.organization.raised, fetches.filings.raised} \ {"none"}

\* get_organization_summary: gather the two fetches, raise what gather
\* raises, or else sort and summarize.
get_organization_summary ==
    /\ arg.kind = "summary"
    /\ call = NoCall
    /\ IF GatherRaises(arg.v) # {}
       THEN \E e \in GatherRaises(arg.v) :
                call' = [fn |-> "get_organization_summary", raised |-> e]
       ELSE call' = [fn |-> "get_organization_summary", raised |-> "none",
                     summary |-> OrganizationSummary(
                                     arg.v.organization.org,
                                     arg.v.filings.filings)]
    /\ UNCHANGED <<arg, sysVars>>

----------------------------------------------------------------------------
\* The MCP tools of server.py, from their arguments and the outcomes of
\* their client calls to the JSON document they return.  A document is
\* modelled by its keys, its error message and its error_type.

\* json.dumps({"error": message})
ErrorOnly(message) ==
    [keys |-> {"error"}, error |-> message, error_type |-> "none"]

\* except Exception as e:
\*     json.dumps({"error": f"{prefix}: {str(e)}", "error_type": type(e).__name__})
Caught(prefix, e) ==
    [keys |-> {"error", "error_type"}, error |-> prefix, error_type |-> e]

\* json.dumps(response, indent=2) of a response with these keys
Document(keys) == [keys |-> keys, error |-> "none", error_type |-> "none"]

\* The exceptions a client call raises: ProPublicaAPIError (invalid EIN,
\* HTTP error, not found, invalid data) and those the normalizers let go.
Faults == {"ProPublicaAPIError", "TypeError", "AttributeError"}

\* The EIN arguments of the tool calls.
EinSamples ==
    { NineDigits,
      <<"9","8","-","7","6","5","4","3","2","1">>,
      <<"1","2","3","4","5">>,
      <<>> }

\* Every Organization _parse_organization returns.
ClientOrganizations ==
    { ParseOrganization(x).org :
        x \in {y \in RawOrganizations : ParseOrganization(y).raised = "none"} }

\* Two of them: one without and one with the time of its last update.
OrganizationSamples ==
    { [ein |-> NineDigits, name |-> <<"R","e","d">>, updated |-> PyNone,
       subseccd |-> PyNone, zipcode |-> PyNone],
      [ein |-> OtherNineDigits, name |-> <<"B","l","u","e">>,
       updated |-> PyDatetime("2024-01-15T10:30:00", "+00:00"),
       subseccd |-> PyStr(<<"3">>), zipcode |-> PyNone] }

\* What api_client.get_organization gives a tool
OrganizationFetches(orgs) ==
    [raised : {"none"}, org : orgs]
        \cup [raised : Faults, org : {NoOrganization}]

\* What api_client.get_organization_filings gives a tool
FilingsFetches ==
    [raised : {"none"}, filings : FiledReturnLists]
        \cup [raised : Faults, filings : {<<>>}]

\* What api_client.search_organizations gives a tool
SearchFetches ==
    [raised : {"none"},
     organizations : UNION {[1..n -> OrganizationSamples] : n \in 0..2}]
        \cup [raised : Faults, organizations : {<<>>}]

\* json.dumps raises TypeError for a datetime: model_dump() of an
\* organization keeps the datetime of "updated".
Serializable(org) == org.updated.t # "datetime"

\* --- search_nonprofits

SearchToolArgs ==
    [tool : {"search_nonprofits"},
     state : {PyNone, PyStr(<<>>), PyStr(<<"C","A">>), PyStr(<<"c","a">>),
              PyStr(<<"X","X">>)},
     ntee_code : {PyNone, PyStr(<<"1">>), PyStr(<<"1","1">>),
                  PyStr(<<"A","0","1">>)},
     subsection_code : {PyNone, PyStr(<<"3">>), PyStr(<<"2","0">>)},
     found : SearchFetches]

\* The three validations of search_nonprofits, in the order of the code
SearchToolError(a) ==
    IF Truthy(a.state) /\ a.state.s \notin US_STATES
    THEN "Invalid state code"
    ELSE IF Truthy(a.ntee_code)
            /\ (~IsDigit(a.ntee_code.s)
                  \/ NatOfText(a.ntee_code.s) \notin NTEE_CATEGORIES)
    THEN "Invalid NTEE code"
    ELSE IF Truthy(a.subsection_code)
            /\ (~IsDigit(a.subsection_code.s)
                  \/ NatOfText(a.subsection_code.s) \notin SUBSECTION_CODES)
    THEN "Invalid subsection code"
    ELSE "none"

tool_search_nonprofits(a) ==
    IF SearchToolError(a) # "none" THEN ErrorOnly(SearchToolError(a))
    ELSE IF a.found.raised # "none"
    THEN Caught("Search failed", a.found.raised)
    ELSE IF \E i \in 1..Len(a.found.organizations) :
               ~Serializable(a.found.organizations[i])
    THEN Caught("Search failed", "TypeError")
    ELSE Document({"search_query", "filters", "search_metadata",
                   "pagination", "organizations", "generated_at"})

\* --- get_organization

OrganizationToolArgs ==
    [tool : {"get_organization"}, ein : EinSamples,
     fetched : OrganizationFetches(ClientOrganizations)]

InvalidEin == "Invalid EIN format"

tool_get_organization(a) ==
    IF ~ToolEinAccepted(a.ein) THEN ErrorOnly(InvalidEin)
    ELSE IF a.fetched.raised # "none"
    THEN Caught("Failed to retrieve organization", a.fetched.raised)
    ELSE IF ~Serializable(a.fetched.org)
    THEN Caught("Failed to retrieve organization", "TypeError")
    ELSE [organization |-> a.fetched.org]
           @@ Document({"organization", "retrieved_at"})

\* --- get_organization_filings

FilingsToolArgs ==
    [tool : {"get_organization_filings"}, ein : EinSamples,
     fetched : FilingsFetches]

\* min([f.tax_year for f in filings if f.tax_year]) if filings else None,
\* and the same of totrevenue: min() of an empty list raises ValueError
MinRaises(filings) ==
    /\ filings # <<>>
    /\ \/ \A i \in 1..Len(filings) : ~Truthy(filings[i].tax_year)
       \/ \A i \in 1..Len(filings) : ~Truthy(filings[i].totrevenue)

tool_get_organization_filings(a) ==
    IF ~ToolEinAccepted(a.ein) THEN ErrorOnly(InvalidEin)
    ELSE IF a.fetched.raised # "none"
    THEN Caught("Failed to retrieve filings", a.fetched.raised)
    ELSE IF MinRaises(a.fetched.filings)
    THEN Caught("Failed to retrieve filings", "ValueError")
    ELSE Document({"ein", "total_filings_available", "filings_returned",
                   "filing_summary", "filings", "retrieved_at"})

\* --- analyze_nonprofit_financials

AnalyzeToolArgs ==
    [tool : {"analyze_nonprofit_financials"},
     ein : {NineDigits, <<"1","2","3","4","5">>},
     years : {1, 3},
     organization : OrganizationFetches(OrganizationSamples),
     filings : FilingsFetches]

\* filings[:years]
FirstOf(filings, n) == SubSeq(filings, 1, Min(n, Len(filings)))

\* The filings that enter financial_data
FinancialData(recent_filings) ==
    SelectSeq(recent_filings,
              LAMBDA f : f.totrevenue # PyNone \/ f.totfuncexpns # PyNone)

\* FinancialSummary(year_range_start=financial_data[-1]["tax_year"],
\* year_range_end=financial_data[0]["tax_year"], ...): both are int fields
SummaryValidates(financial_data) ==
    financial_data # <<>> =>
        /\ financial_data[Len(financial_data)].tax_year # PyNone
        /\ financial_data[1].tax_year # PyNone

tool_analyze_nonprofit_financials(a) ==
    IF ~ToolEinAccepted(a.ein) THEN ErrorOnly(InvalidEin)
    ELSE IF a.organization.raised # "none"
    THEN Caught("Financial analysis failed", a.organization.raised)
    ELSE IF a.filings.raised # "none"
    THEN Caught("Financial analysis failed", a.filings.raised)
    ELSE IF FirstOf(a.filings.filings, a.years) = <<>>
    THEN ErrorOnly("No financial data available for analysis")
    ELSE IF ~SummaryValidates(
                FinancialData(FirstOf(a.filings.filings, a.years)))
    THEN Caught("Financial analysis failed", "ValidationError")
    ELSE Document({"financial_summary", "detailed_data", "trends", "ratios",
                   "analysis_notes"})

\* --- search_similar_nonprofits

SimilarToolArgs ==
    [tool : {"search_similar_nonprofits"}, ein : EinSamples,
     reference : OrganizationFetches(OrganizationSamples),
     found : SearchFetches]

\* The organizations compared: those found, without the reference
\* organization.
SimilarOrganizations(a) ==
    SelectSeq(a.found.organizations,
              LAMBDA org : org.ein # ToolCleanEin(a.ein))

tool_search_similar_nonprofits(a) ==
    IF ~ToolEinAccepted(a.ein) THEN ErrorOnly(InvalidEin)
    ELSE IF a.reference.raised # "none"
    THEN Caught("Similar organization search failed", a.reference.raised)
    ELSE IF a.found.raised # "none"
    THEN Caught("Similar organization search failed", a.found.raised)
    ELSE IF \E i \in 1..Len(SimilarOrganizations(a)) :
               ~Serializable(SimilarOrganizations(a)[i])
    THEN Caught("Similar organization search failed", "TypeError")
    ELSE Document({"reference_organization", "search_criteria",
                   "similar_organizations_found", "similar_organizations",
                   "generated_at"})

\* --- export_nonprofit_data

\* How many EINs a batch of the model holds, at most (but for the one batch
\* that is too long).
MaxEins == 2

\* "Maximum 10 organizations allowed per export"
MaxOrganizations == 10

BatchEins == {NineDigits, <<"9","8","-","7","6","5","4","3","2","1">>,
              <<"1","2","3","4","5">>}

\* What the client gives for one EIN of the batch: the organization or a
\* fault, and the filings or a fault.
BatchFetches ==
    [organization :
        [raised : {"none"}, org : OrganizationSamples]
          \cup [raised : {"ProPublicaAPIError"}, org : {NoOrganization}],
     filings :
        { [raised |-> "none",
           filings |-> <<FiledReturn(PyInt(2022), PyFloat(20000),
                                     PyFloat(5000), PyNone, PyFloat(1000))>>],
          [raised |-> "TypeError", filings |-> <<>>] }]

\* The batches: the EINs and, for each, what the client gives.
Batches ==
    UNION { [eins : [1..n -> BatchEins], fetched : [1..n -> BatchFetches]] :
            n \in 0..MaxEins }
        \cup { [eins |-> [i \in 1..(MaxOrganizations + 1) |-> NineDigits],
                fetched |-> [i \in 1..(MaxOrganizations + 1) |-> f]] :
               f \in BatchFetches }

ExportToolArgs ==
    { [tool |-> "export_nonprofit_data", eins |-> b.eins,
       fetched |-> b.fetched, format |-> fmt, include_financials |-> fin,
       include_filings |-> fil] :
        b \in Batches, fmt \in {"json", "csv", "xml"}, fin \in BOOLEAN,
        fil \in BOOLEAN }

\* The positions of the batch whose organization was fetched: its org_data
\* is appended to export_data (a fault of the filings is logged only); the
\* other positions are appended to errors.
Exported(a) ==
    SelectSeq([i \in 1..Len(a.eins) |-> i],
              LAMBDA i : a.fetched[i].organization.raised = "none")

Failed(a) ==
    SelectSeq([i \in 1..Len(a.eins) |-> i],
              LAMBDA i : a.fetched[i].organization.raised # "none")

\* The EINs of these positions, cleaned
CleanEinsOf(a, positions) ==
    [k \in 1..Len(positions) |-> ToolCleanEin(a.eins[positions[k]])]

\* What org_data holds of the filings: the year of the latest filing if
\* include_financials and the filings were fetched and are not empty, and
\* recent_filings if include_filings and the filings were fetched.
FilingDetails(a, i) ==
    LET f == a.fetched[i].filings
    IN  [latest_filing_year |->
             IF a.include_financials /\ f.raised = "none"
                /\ f.filings # <<>>
             THEN f.filings[1].tax_year ELSE PyMissing,
         recent_filings |-> a.include_filings /\ f.raised = "none"]

\* export_nonprofit_data: validate the batch as a whole, then fetch each EIN
\* in its own try, then write the JSON document or the document with the
\* CSV text.
tool_export_nonprofit_data(a) ==
    IF a.eins = <<>> THEN ErrorOnly("No EINs provided for export")
    ELSE IF Len(a.eins) > MaxOrganizations
    THEN ErrorOnly("Maximum 10 organizations allowed per export")
    ELSE IF a.format \notin {"json", "csv"}
    THEN ErrorOnly("Invalid format")
    ELSE IF \E i \in 1..Len(a.eins) : ~ToolEinAccepted(a.eins[i])
    THEN ErrorOnly(InvalidEin)
    ELSE [total_organizations |-> Len(a.eins),
          successful_exports |-> Len(Exported(a)),
          failed_exports |-> Len(Failed(a)),
          organizations |-> CleanEinsOf(a, Exported(a)),
          details |-> [k \in 1..Len(Exported(a)) |->
                          FilingDetails(a, Exported(a)[k])],
          errors |-> CleanEinsOf(a, Failed(a))]
           @@ Document(IF a.format = "json"
                       THEN {"export_id", "generated_at",
                             "total_organizations", "successful_exports",
                             "failed_exports", "export_format",
                             "organizations", "errors", "metadata"}
                       ELSE {"export_metadata", "csv_data"})

\* --- every tool

Tools ==
    {"search_nonprofits", "get_organization", "get_organization_filings",
     "analyze_nonprofit_financials", "search_similar_nonprofits",
     "export_nonprofit_data"}

ToolArgs ==
    SearchToolArgs \cup OrganizationToolArgs \cup FilingsToolArgs
        \cup AnalyzeToolArgs \cup SimilarToolArgs \cup ExportToolArgs

ToolResponse(a) ==
    CASE a.tool = "search_nonprofits" -> tool_search_nonprofits(a)
      [] a.tool = "get_organization" -> tool_get_organization(a)
      [] a.tool = "get_organization_filings" ->
             tool_get_organization_filings(a)
      [] a.tool = "analyze_nonprofit_financials" ->
             tool_analyze_nonprofit_financials(a)
      [] a.tool = "search_similar_nonprofits" ->
             tool_search_similar_nonprofits(a)
      [] a.tool = "export_nonprofit_data" -> tool_export_nonprofit_data(a)

\* A tool called with its arguments returns its document; no exception
\* leaves it, for its whole body is inside "try: ... except Exception".
ToolReturns(tool) ==
    /\ arg.kind = "tool"
    /\ arg.v.tool = tool
    /\ call = NoCall
    /\ call' = [fn |-> "tool", response |-> ToolResponse(arg.v)]
    /\ UNCHANGED <<arg, sysVars>>

----------------------------------------------------------------------------
\* Every tool and normalizer applied to every argument it can be given.

Args ==
    [kind : {"ein"}, v : EinTexts]
        \cup [kind : {"search"}, v : SearchArgs]
        \cup [kind : {"organization"}, v : RawOrganizations]
        \cup [kind : {"reply"}, v : SearchReplies]
        \cup [kind : {"filing"}, v : RawFilings]
        \cup [kind : {"filings"}, v : FilingsReplies]
        \cup [kind : {"entity"}, v : OrganizationReplies]
        \cup [kind : {"summary"}, v : Fetches]
        \cup [kind : {"tool"}, v : ToolArgs]

ApplyInit ==
    /\ Constructed
    /\ arg \in Args
    /\ call = NoCall

ApplyNext ==
    \/ \E tool \in EinTools : ToolCleansEin(tool)
    \/ ClientCleansEin
    \/ SearchValidates
    \/ parse_organization
    \/ parse_organization_again
    \/ SearchAssembles
    \/ parse_filing
    \/ parse_filing_again
    \/ FilingsAssemble
    \/ OrganizationReturns
    \/ get_organization_summary
    \/ \E tool \in Tools : ToolReturns(tool)

ApplySpec == ApplyInit /\ [][ApplyNext]_vars

----------------------------------------------------------------------------
\* Properties

InRequest(p) == pc[p] \in {"waitlock", "ratesleep", "get", "backoff"}

\* C1: at no time do more than max_requests acquire() calls lie inside the
\* trailing window of time_window seconds, each counted at the time it
\* returned.
C1_WindowBudget == Len(returns) <= max_requests

\* C2: the check-and-record sequences of concurrent acquire() calls never
\* overlap: at most one caller is between its count check and its record, and
\* it holds the lock, so no second caller can observe the budget meanwhile.
C2_CheckAndRecordAtomic ==
    \A p \in Procs :
        pc[p] = "ratesleep" =>
            /\ lockHolder = p
            /\ \A q \in Procs : pc[q] = "ratesleep" => q = p

\* One caller saw exactly one slot left and took it; the caller that came
\* with it saw none left and waits.
C2_Witness ==
    \E p, q \in Procs :
        /\ pc[p] = "get" /\ acq[p].count = max_requests - 1
        /\ pc[q] = "ratesleep" /\ acq[q].count = max_requests

C4_RecordsCurrentTime ==
    \A p \in Procs : pc[p] = "get" => acq[p].recorded = 0

\* C5: every GET of a request, retries included, follows a completed
\* acquire() of its own: the request has issued as many GETs as it has
\* completed acquire() calls, one per attempt.
C5_AcquirePerGet ==
    \A p \in Procs :
        /\ nGet[p] = nAcquire[p]
        /\ pc[p] \in {"get", "backoff"} => nGet[p] = retry_count[p] + 1
        /\ (pc[p] = "done" /\ last_resp[p] # "none") =>
               nGet[p] = retry_count[p] + 1

C5_Witness ==
    \E p \in Procs :
        pc[p] = "get" /\ retry_count[p] = max_retries /\ nAcquire[p] = nGet[p]

\* C6: while the replies so far are k server errors, 1 <= k <= max_retries,
\* the request goes on to retry, and when the next reply is a success with a
\* JSON body the request returns it after exactly k retries and k + 1 GETs.
C6_RetryThenSuccess ==
    \A p \in Procs :
        (nNetErr[p] = 0 /\ n5xx[p] \in 1..max_retries) =>
            /\ last_resp[p] = "http500" =>
                   /\ outcome[p] = "none"
                   /\ InRequest(p)
            /\ last_resp[p] = "ok" =>
                   /\ pc[p] = "done"
                   /\ outcome[p] = "ok"
                   /\ retry_count[p] = n5xx[p]
                   /\ nGet[p] = n5xx[p] + 1

C6_Witness ==
    \E p, q \in Procs :
        /\ last_resp[p] = "ok" /\ n5xx[p] = 1 /\ nNetErr[p] = 0
        /\ outcome[p] = "ok" /\ retry_count[p] = 1
        /\ last_resp[q] = "ok" /\ n5xx[q] = max_retries /\ nNetErr[q] = 0
        /\ outcome[q] = "ok"

\* C7 as claimed: a request that has received three consecutive 500 replies
\* (max_retries = 3) ends in ProPublicaAPIError.
C7_ThreeServerErrorsFail ==
    \A p \in Procs :
        (max_retries = 3 /\ pc[p] = "done" /\ n5xx[p] = 3 /\ nNetErr[p] = 0) =>
            outcome[p] = "APIError"

\* C7, amended: four consecutive 500 replies (the first attempt and its
\* max_retries = 3 retries) end the request in ProPublicaAPIError carrying
\* status 500, after exactly 3 retries.
C7_FourServerErrorsFail ==
    \A p \in Procs :
        (n5xx[p] = max_retries + 1 /\ nNetErr[p] = 0) =>
            /\ pc[p] = "done"
            /\ outcome[p] = "APIError"
            /\ status_code[p] = 500
            /\ retry_count[p] = max_retries
            /\ nGet[p] = max_retries + 1

C7_Witness ==
    \E p \in Procs :
        /\ max_retries = 3
        /\ n5xx[p] = 4 /\ nNetErr[p] = 0
        /\ outcome[p] = "APIError" /\ retry_count[p] = 3

\* C8: a client-error reply or a success reply with a non-JSON body ends the
\* request at once in ProPublicaAPIError: no backoff wait is started and no
\* acquire() or GET follows it; the client error carries its status code.
C8_NoRetryOfNonTransient ==
    \A p \in Procs :
        last_resp[p] \in {"http404", "badjson"} =>
            /\ pc[p] = "done"
            /\ outcome[p] = "APIError"
            /\ sleepLeft[p] = 0
            /\ Len(waits[p]) = retry_count[p]
            /\ nGet[p] = retry_count[p] + 1
            /\ nAcquire[p] = nGet[p]
            /\ last_resp[p] = "http404" => status_code[p] = 404

C8_Witness ==
    \E p, q \in Procs :
        /\ last_resp[p] = "http404" /\ status_code[p] = 404
        /\ outcome[p] = "APIError"
        /\ last_resp[q] = "badjson" /\ outcome[q] = "APIError"

\* C9: a request issues at most max_retries + 1 GETs; once begun it ends,
\* with a result or with ProPublicaAPIError; and if every attempt of it
\* failed with a network error it ends in ProPublicaAPIError.
C9_Terminates ==
    /\ [](\A p \in Procs : nGet[p] <= max_retries + 1)
    /\ \A p \in Procs :
          InRequest(p) ~> (pc[p] = "done" /\ outcome[p] \in {"ok", "APIError"})
    /\ \A p \in Procs :
          (InRequest(p) /\ nNetErr[p] = max_retries + 1)
              ~> (pc[p] = "done" /\ outcome[p] = "APIError")
    /\ [](\A p \in Procs :
              (pc[p] = "done" /\ nGet[p] > 0 /\ nNetErr[p] = nGet[p]) =>
                  (outcome[p] = "APIError" /\ nGet[p] = max_retries + 1))

C9_Witness ==
    \E p \in Procs :
        /\ pc[p] = "done" /\ outcome[p] = "APIError"
        /\ nNetErr[p] = max_retries + 1 /\ nGet[p] = max_retries + 1

\* An EIN of exactly 9 digits once hyphens and surrounding whitespace are
\* removed: the EIN without its hyphens is whitespace, 9 digits, whitespace.
NineDigitEin(e) ==
    LET h == SelectSeq(e, LAMBDA c : c # "-")
    IN  \E i \in 1..(Len(h) + 1) :
            /\ Len(h) >= i + EinLen - 1
            /\ \A k \in 1..(i - 1) : h[k] \in Whitespace
            /\ \A k \in i..(i + EinLen - 1) : h[k] \in Digits
            /\ \A k \in (i + EinLen)..Len(h) : h[k] \in Whitespace

\* C10: a call of get_organization or get_organization_filings with an EIN
\* that is not 9 digits after cleaning ends in the identifier error within
\* the call itself: no acquire(), no GET, and the rate limiter (tracked
\* timestamps, lock, queue) is left as it was.
C10_InvalidEinBeforeNetwork ==
    [][\A p \in Procs, e \in EinInputs :
          ((get_organization(p, e) \/ get_organization_filings(p, e))
              /\ ~NineDigitEin(e)) =>
                 /\ pc'[p] = "done"
                 /\ outcome'[p] = "InvalidEIN"
                 /\ nAcquire' = nAcquire
                 /\ nGet' = nGet
                 /\ requests' = requests
                 /\ lockHolder' = lockHolder
                 /\ waiters' = waiters]_vars

\* A call was rejected while the limiter tracked another caller's request.
C10_Witness ==
    \E p \in Procs :
        /\ outcome[p] = "InvalidEIN"
        /\ ~NineDigitEin(ein_clean[p])
        /\ nAcquire[p] = 0 /\ nGet[p] = 0
        /\ requests # <<>>

\* The digits of a text, in order.
DigitsOf(e) == SelectSeq(e, LAMBDA c : c \in Digits)

\* C11: for an EIN of 9 digits written with hyphens anywhere and whitespace
\* around it, every EIN tool and the client clean it to its 9 digits, and the
\* tool calls the client with those 9 digits, which the client accepts as
\* they are; every other argument is rejected, by the tool without a call of
\* the client.
C11_EinCleaning ==
    (arg.kind = "ein" /\ call # NoCall) =>
        IF NineDigitEin(arg.v)
        THEN /\ call.error = "none"
             /\ call.client_called
             /\ call.client_accepted
             /\ call.ein_clean = DigitsOf(arg.v)
             /\ Len(call.ein_clean) = EinLen
             /\ call.fn \in EinTools => call.client_arg = DigitsOf(arg.v)
        ELSE /\ call.error = "Invalid EIN format"
             /\ ~call.client_accepted
             /\ call.fn \in EinTools => ~call.client_called

\* A tool was given an EIN with whitespace on both sides and as many hyphens
\* as an argument has, and called the client with the 9 digits.
C11_Witness ==
    /\ arg.kind = "ein"
    /\ call # NoCall
    /\ call.fn = "export_nonprofit_data"
    /\ Len(arg.v) = EinLen + 2 + MaxHyphens
    /\ Head(arg.v) \in Whitespace
    /\ arg.v[Len(arg.v)] \in Whitespace
    /\ call.client_called
    /\ call.client_arg = <<"1","2","3","4","5","6","7","8","9">>

\* A state code of the reference set, in either case of its letters.
IsStateCode(s) == \E u \in US_STATES : Len(s) = Len(u) /\ Upper(s) = u

\* C12: search_organizations raises its filter error, and does not come to
\* _make_request (no acquire(), no GET), whenever a state is supplied that is
\* no state code, a category is supplied that is not in 1..10, or a
\* subsection code is supplied that is not a code of the reference set.
C12_InvalidFilterRejected ==
    (arg.kind = "search" /\ call # NoCall) =>
        ((\/ arg.v.state # PyNone /\ ~IsStateCode(arg.v.state.s)
          \/ arg.v.ntee_category # PyNone
               /\ arg.v.ntee_category.i \notin 1..10
          \/ arg.v.subsection_code # PyNone
               /\ arg.v.subsection_code.i \notin SUBSECTION_CODES)
            => (call.raised # "none" /\ ~call.requested))


\* The organizations of the fragments that normalize, in the order of the
\* fragments.
RECURSIVE NormalizedInOrder(_)
NormalizedInOrder(frags) ==
    IF frags = <<>> THEN <<>>
    ELSE (IF ParseOrganization(Head(frags)).raised = "none"
          THEN <<ParseOrganization(Head(frags)).org>> ELSE <<>>)
           \o NormalizedInOrder(Tail(frags))

\* C13: the search does not fail for a fragment that does not normalize; its
\* organizations are the fragments that normalize, in upstream order, and
\* its total_results is the total upstream reports (0 if it reports none).
C13_ValidFragmentsInOrder ==
    (arg.kind = "reply" /\ call # NoCall) =>
        /\ call.raised = "none"
        /\ call.result.organizations = NormalizedInOrder(arg.v.organizations)
        /\ call.result.total_results =
               GetDefault(arg.v, "total_results", PyInt(0)).i


\* C14: every SearchResult the search returns has at most per_page
\* organizations.
C14_AtMostPerPage ==
    (arg.kind = "reply" /\ call # NoCall /\ call.raised = "none") =>
        Len(call.result.organizations) <= call.result.per_page


\* C15: every organization _parse_organization returns has an ein of exactly
\* 9 digit characters.
C15_EinNineDigits ==
    (arg.kind = "organization" /\ call # NoCall /\ call.raised = "none") =>
        /\ Len(call.org.ein) = EinLen
        /\ \A i \in 1..Len(call.org.ein) : call.org.ein[i] \in Digits


\* The raw EIN is a positive number that pads to 9 digits, or a text of 9
\* digits once its hyphens are taken out.
EinReducesToNineDigits(e) ==
    CASE e.t = "int" -> e.i > 0 /\ Len(NatToStr(e.i)) <= EinLen
      [] e.t = "str" -> /\ Len(RemoveHyphens(e.s)) = EinLen
                        /\ \A i \in 1..Len(e.s) : e.s[i] \in Digits \cup {"-"}
      [] OTHER -> FALSE

\* The raw timestamp is a text that is no ISO-8601 date-time.
UpdatedUnparseable(u) ==
    u.t = "str" /\ u.s # <<>>
        /\ ~(\E i \in 1..2 : Len(u.s) = i /\ u.s[1] \in IsoLocalTimes
               /\ (i = 2 => u.s[2] \in {"Z", "+00:00"}))

\* C16: _parse_organization raises nothing but the invalid-organization
\* error, and raises it only if ein or name is missing (or no text or number)
\* or the EIN does not reduce to 9 digits; whatever the optional fields hold
\* it does not raise, and a timestamp that cannot be parsed is stored as
\* absent.
C16_RaisesOnlyForRequired ==
    (arg.kind = "organization" /\ call # NoCall) =>
        /\ call.raised \in {"none", "Invalid organization data"}
        /\ call.raised # "none" =>
              \/ arg.v.d.name.t # "str"
              \/ ~EinReducesToNineDigits(arg.v.d.ein)
        /\ (call.raised = "none" /\ UpdatedUnparseable(arg.v.d.updated)) =>
              call.org.updated = PyNone


\* The year a raw value gives: the number itself, or the number a text of
\* digits writes; no year otherwise.
GivesYear(x) == x.t = "int" \/ (x.t = "str" /\ IsDigit(x.s))
YearGiven(x) == IF x.t = "int" THEN x.i ELSE NatOfText(x.s)

\* The first 4 characters of the period are digits.
PeriodGivesYear(x) ==
    /\ x.t \in {"int", "str"}
    /\ Len(StrOf(x)) >= 4
    /\ IsDigit(SubSeq(StrOf(x), 1, 4))

\* C17: the tax_year of a normalized filing is the year tax_prd_yr gives; if
\* it gives none, the number of the first 4 characters of tax_prd; if that
\* gives none either, absent.
C17_TaxYearPriority ==
    (arg.kind = "filing" /\ call # NoCall /\ call.raised = "none") =>
        call.filing.tax_year =
            IF GivesYear(arg.v.d.tax_prd_yr)
            THEN PyInt(YearGiven(arg.v.d.tax_prd_yr))
            ELSE IF PeriodGivesYear(arg.v.d.tax_prd)
            THEN PyInt(NatOfText(SubSeq(StrOf(arg.v.d.tax_prd), 1, 4)))
            ELSE PyNone


\* C18: the form_type of every normalized filing is one of "990", "990EZ",
\* "990PF", "990T"; the upstream codes 0, 1, 2, 3 give these in turn and any
\* other integer code gives "990".
C18_FormTypeOfTheFour ==
    (arg.kind = "filing" /\ call # NoCall /\ call.raised = "none") =>
        /\ call.filing.form_type.t = "str"
        /\ Len(call.filing.form_type.s) = 1
        /\ call.filing.form_type.s[1] \in FORM_TYPES
        /\ arg.v.d.formtype.t = "int" =>
              call.filing.form_type.s[1] =
                  CASE arg.v.d.formtype.i = 0 -> "990"
                    [] arg.v.d.formtype.i = 1 -> "990EZ"
                    [] arg.v.d.formtype.i = 2 -> "990PF"
                    [] arg.v.d.formtype.i = 3 -> "990T"
                    [] OTHER -> "990"


\* A monetary value that is a number or writes one.
IsNumeric(x) == x.t \in {"int", "float"} \/ (x.t = "str" /\ IsDigit(x.s))

\* C19: _parse_filing rejects no raw filing that has its ein, whatever its
\* monetary, tax year, period and form type values are: a monetary value
\* that is no number becomes absent and one that is a number is kept.
C19_FailSoft ==
    (arg.kind = "filing" /\ call # NoCall) =>
        /\ call.raised = "none"
        /\ call.filing.ein = arg.v.d.ein.s
        /\ IsNumeric(arg.v.d.totrevenue) <=> call.filing.totrevenue # PyNone
        /\ IsNumeric(arg.v.d.totassetsend)
              <=> call.filing.totassetsend # PyNone


\* C20: _parse_organization and _parse_filing applied to the record their
\* previous application left return the entity the first application
\* returned.
C20_Idempotent ==
    (arg.kind \in {"organization", "filing"} /\ call # NoCall
       /\ call.raised = "none" /\ call.again # NoResult) =>
        /\ call.again.raised = "none"
        /\ arg.kind = "organization" => call.again.org = call.org
        /\ arg.kind = "filing" => call.again.filing = call.filing


\* The filing an entry normalizes to once it carries the caller's EIN, if it
\* is an object.
NormalizedFiling(frag, clean) ==
    IF frag.t # "dict" THEN [raised |-> "TypeError", filing |-> NoFiling]
    ELSE ParseFiling(PyDict([frag.d EXCEPT !["ein"] = PyStr(clean)]))

\* The positions of the entries that normalize and fit the year filter.
KeptPositions(frags, clean, year) ==
    { i \in 1..Len(frags) :
        /\ NormalizedFiling(frags[i], clean).raised = "none"
        /\ year # PyNone =>
             NormalizedFiling(frags[i], clean).filing.tax_year = year }

\* The entries of the reply, an absent or null array being empty.
EntriesOf(data) ==
    IF data.filings_with_data.t = "list" THEN data.filings_with_data.l
    ELSE <<>>

\* C21: get_organization_filings does not fail for an entry that does not
\* normalize; it returns the filings of the entries that normalize and fit
\* the year filter, in upstream order, each carrying the caller's cleaned
\* EIN; an absent or empty array gives the empty list.
C21_FilingsKeptInOrder ==
    (arg.kind = "filings" /\ call # NoCall) =>
        LET kept == KeptPositions(EntriesOf(arg.v), arg.v.ein_clean,
                                  arg.v.year)
        IN  /\ call.raised = "none"
            /\ Len(call.filings) = Cardinality(kept)
            /\ \A k \in 1..Len(call.filings) :
                 /\ call.filings[k].ein = arg.v.ein_clean
                 /\ \E i \in kept :
                      /\ Cardinality({j \in kept : j < i}) = k - 1
                      /\ call.filings[k] =
                           NormalizedFiling(EntriesOf(arg.v)[i],
                                            arg.v.ein_clean).filing

\* The "organization" field holds no organization: it is absent, null, an
\* empty list or an object without keys.
OrganizationAbsent(data) ==
    \/ data.organization \in {PyMissing, PyNone, PyList(<<>>)}
    \/ /\ data.organization.t = "dict"
       /\ \A k \in DOMAIN data.organization.d :
            data.organization.d[k] = PyMissing

\* The object the field holds, alone or as the one element of a list.
OrganizationObject(data) ==
    IF data.organization.t = "list" THEN data.organization.l[1]
    ELSE data.organization

\* C22: get_organization raises the not-found error when the organization
\* field is absent or empty; otherwise, for the object alone and for the
\* list of that one object alike, it returns the Organization the object
\* normalizes to, or raises what the normalization raises.
C22_BothShapes ==
    (arg.kind = "entity" /\ call # NoCall) =>
        IF OrganizationAbsent(arg.v)
        THEN call.raised = "Organization not found"
        ELSE LET r == ParseOrganization(OrganizationObject(arg.v))
             IN  /\ call.raised = r.raised
                 /\ r.raised = "none" => call.org = r.org

\* An organization returned from the list shape.
C22_Witness ==
    /\ arg.kind = "entity"
    /\ call # NoCall
    /\ arg.v.organization.t = "list"
    /\ call.raised = "none"
    /\ call.org.ein = NineDigits
    /\ call.org.name = <<"R","e","d">>
    /\ call.org.updated # PyNone

\* The year a filing is ranked by: its tax year, or less than every tax
\* year if it has none.  Tax years are positive.
RankedYear(f) == IF f.tax_year = PyNone THEN 0 ELSE f.tax_year.i

\* C23: get_organization_summary fails if one of its two fetches fails;
\* otherwise total_filings is the number of filings, the snapshot is omitted
\* exactly when there is no filing, and it holds the year and the amounts of
\* one filing of the greatest tax year (net assets being assets less
\* liabilities where both are present), a filing without a year ranking
\* below every filing with one.
C23_SnapshotOfMostRecent ==
    (arg.kind = "summary" /\ call # NoCall) =>
        LET fetched == arg.v.filings.filings
            failed == \/ arg.v.organization.raised # "none"
                      \/ arg.v.filings.raised # "none"
        IN  /\ failed <=> call.raised # "none"
            /\ ~failed =>
                 /\ call.summary.total_filings = Len(fetched)
                 /\ call.summary.financial_summary = NoSummary
                      <=> fetched = <<>>
                 /\ fetched # <<>> =>
                      \E i \in 1..Len(fetched) :
                        /\ \A j \in 1..Len(fetched) :
                             RankedYear(fetched[j]) <= RankedYear(fetched[i])
                        /\ call.summary.financial_summary.most_recent_year
                             = fetched[i].tax_year
                        /\ call.summary.financial_summary.total_revenue
                             = fetched[i].totrevenue
                        /\ call.summary.financial_summary.total_expenses
                             = fetched[i].totfuncexpns
                        /\ call.summary.financial_summary.total_assets
                             = fetched[i].totassetsend
                        /\ call.summary.financial_summary.net_assets
                             = IF PyNone \in {fetched[i].totassetsend,
                                              fetched[i].totliabend}
                               THEN PyNone
                               ELSE PyFloat(fetched[i].totassetsend.f
                                              - fetched[i].totliabend.f)

\* A summary of three filings whose most recent one was fetched last and
\* whose first one has no year.
C23_Witness ==
    /\ arg.kind = "summary"
    /\ call # NoCall
    /\ call.raised = "none"
    /\ Len(arg.v.filings.filings) = 3
    /\ arg.v.filings.filings[1].tax_year = PyNone
    /\ arg.v.filings.filings[2].tax_year = PyInt(2019)
    /\ arg.v.filings.filings[3].tax_year = PyInt(2022)
    /\ call.summary.financial_summary.most_recent_year = PyInt(2022)
    /\ call.summary.filing_years = <<2022, 2019>>

\* The call of the tool takes a failure path: an argument is invalid or a
\* client call raises.
InvalidArgument(a) ==
    \/ "ein" \in DOMAIN a /\ ~NineDigitEin(a.ein)
    \/ /\ a.tool = "export_nonprofit_data"
       /\ \/ a.format \notin {"json", "csv"}
          \/ \E i \in 1..Len(a.eins) : ~NineDigitEin(a.eins[i])
    \/ /\ a.tool = "search_nonprofits"
       /\ a.state \in {PyStr(<<"c","a">>), PyStr(<<"X","X">>)}

ClientFault(a) ==
    \E k \in DOMAIN a \cap {"found", "fetched", "reference", "organization",
                            "filings"} :
        /\ a.tool # "export_nonprofit_data"
        /\ a[k].raised # "none"

\* C24: on every failure path, an invalid EIN, filter or format or a fault
\* of the client, the tool returns a document with an error message and an
\* error_type.
C24_ErrorAndType ==
    (arg.kind = "tool" /\ call # NoCall
       /\ (InvalidArgument(arg.v) \/ ClientFault(arg.v))) =>
        {"error", "error_type"} \subseteq call.response.keys

\* C25: export_nonprofit_data takes the EINs of a batch one by one: every
\* response counts as many organizations as EINs were given, each of them
\* either exported or listed in errors, also when an EIN of the batch is
\* invalid or its organization cannot be fetched.
C25_EachEinOnItsOwn ==
    (arg.kind = "tool" /\ call # NoCall
       /\ arg.v.tool = "export_nonprofit_data"
       /\ arg.v.eins # <<>>
       /\ Len(arg.v.eins) <= MaxOrganizations
       /\ arg.v.format \in {"json", "csv"}) =>
        /\ "error" \notin call.response.keys
        /\ call.response.total_organizations = Len(arg.v.eins)
        /\ call.response.successful_exports + call.response.failed_exports
             = call.response.total_organizations
        /\ Len(call.response.organizations)
             = call.response.successful_exports
        /\ Len(call.response.errors) = call.response.failed_exports
        /\ \A i \in 1..Len(arg.v.eins) :
             LET e == ToolCleanEin(arg.v.eins[i])
                 same == {j \in 1..Len(arg.v.eins) :
                            ToolCleanEin(arg.v.eins[j]) = e}
                 among(s) == Cardinality({k \in 1..Len(s) : s[k] = e})
             IN  among(call.response.organizations)
                   + among(call.response.errors) = Cardinality(same)

\* C26: when the client returns an Organization for a valid EIN, the
\* document of the get_organization tool has the key organization with the
\* ein and the name of that Organization, has the key retrieved_at and has
\* no key error.
C26_OrganizationDocument ==
    (arg.kind = "tool" /\ call # NoCall
       /\ arg.v.tool = "get_organization"
       /\ NineDigitEin(arg.v.ein)
       /\ arg.v.fetched.raised = "none") =>
        /\ {"organization", "retrieved_at"} \subseteq call.response.keys
        /\ "error" \notin call.response.keys
        /\ call.response.organization.ein = arg.v.fetched.org.ein
        /\ call.response.organization.name = arg.v.fetched.org.name

\* The sum of a sequence of numbers.
RECURSIVE Sum(_)
Sum(s) == IF s = <<>> THEN 0 ELSE Head(s) + Sum(Tail(s))

\* The attempts of the request that failed with a server error or without
\* a reply.
TransientFailures(p) == n5xx[p] + nNetErr[p]

\* C27: a server error or a network failure at attempt a < max_retries is
\* followed by a wait of 2^a seconds and then by attempt a + 1 for the same
\* endpoint; a request whose max_retries = 3 retries are used up has waited
\* 1, 2, 4 seconds, 7 in all, and takes no wait after its last failure.
C27_ExponentialBackoff ==
    /\ [](\A p \in Procs :
            /\ Len(waits[p]) = Min(TransientFailures(p), max_retries)
            /\ \A a \in 0..(Len(waits[p]) - 1) : waits[p][a + 1] = 2 ^ a
            /\ pc[p] = "backoff" =>
                 /\ last_resp[p] \in {"http500", "neterr"}
                 /\ retry_count[p] < max_retries
                 /\ Len(waits[p]) = retry_count[p] + 1
                 /\ sleepLeft[p] <= 2 ^ retry_count[p]
            /\ (max_retries = 3 /\ TransientFailures(p) = max_retries + 1) =>
                 /\ waits[p] = <<1, 2, 4>>
                 /\ Sum(waits[p]) = 7
                 /\ pc[p] = "done"
                 /\ sleepLeft[p] = 0)
    /\ [][\A p \in Procs :
            (pc[p] = "backoff" /\ pc'[p] # "backoff") =>
                /\ sleepLeft[p] = 0
                /\ retry_count'[p] = retry_count[p] + 1
                /\ ein_clean'[p] = ein_clean[p]
                /\ pc'[p] \in {"get", "ratesleep", "waitlock"}
                /\ waits'[p] = waits[p]]_vars

\* A request failed four times, by server errors and by network failures
\* both, and ended after the waits of 1, 2 and 4 seconds.
C27_Witness ==
    \E p \in Procs :
        /\ pc[p] = "done" /\ outcome[p] = "APIError"
        /\ n5xx[p] = 2 /\ nNetErr[p] = 2
        /\ waits[p] = <<1, 2, 4>>

\* The caller is inside acquire(): queued for the lock, or holding it and
\* waiting for budget.
InAcquire(p) == pc[p] \in {"waitlock", "ratesleep"}

\* The place of a queued caller in the queue of the lock.
QueuePlace(p) == CHOOSE i \in 1..Len(waiters) : waiters[i] = p

\* q called acquire() after p did, both being inside it: p holds the lock
\* and q is queued, or q is queued behind p.
CalledAfter(q, p) ==
    /\ pc[q] = "waitlock"
    /\ \/ pc[p] = "ratesleep"
       \/ pc[p] = "waitlock" /\ QueuePlace(p) < QueuePlace(q)

\* C28: acquire() calls return in the order they were made: when a caller's
\* acquire() returns, every caller still inside acquire() called it later,
\* also when the returning caller had to wait for budget.
C28_FirstAcquireFirstServed ==
    [][\A p \in Procs :
          nAcquire'[p] = nAcquire[p] + 1 =>
              \A q \in Procs \ {p} : InAcquire(q) => CalledAfter(q, p)]_vars

\* A caller that waited for budget returns from acquire() while the caller
\* that came after it is still queued.
C28_Witness ==
    \E p, q \in Procs :
        /\ pc[p] = "get" /\ acq[p].waited > 0
        /\ pc[q] = "waitlock"
        /\ waiters = <<q>>

\* The caller is suspended in the sleep of its retry backoff.
InBackoff(q) == pc[q] = "backoff" /\ sleepLeft[q] > 0

\* The caller is suspended inside acquire(), in the sleep for budget.
WaitsForBudget(q) == pc[q] = "ratesleep" /\ sleepLeft[q] > 0

\* The window has room for one more request.
BudgetLeft == Len(InWindow(requests)) < max_requests

\* The caller calls acquire() in this step: it begins a request or a retry.
CallsAcquire(p) ==
    pc[p] \in {"idle", "backoff"} /\ pc'[p] \in {"get", "ratesleep", "waitlock"}

\* C29: a caller sleeping in its retry backoff holds no lock and is not
\* queued for it; a caller sleeping in acquire() keeps out nobody the
\* window has room for; and a caller that calls acquire() while every other
\* caller is suspended in its backoff is not queued, and if the window has
\* room its acquire() returns at once and it issues its GET.
C29_SuspendedBlocksNobody ==
    /\ [](\A q \in Procs :
            /\ pc[q] = "backoff" =>
                 /\ lockHolder # q
                 /\ \A i \in 1..Len(waiters) : waiters[i] # q
            /\ WaitsForBudget(q) => ~BudgetLeft)
    /\ [][\A p \in Procs :
            (CallsAcquire(p) /\ \A q \in Procs \ {p} : InBackoff(q)) =>
                /\ pc'[p] # "waitlock"
                /\ BudgetLeft =>
                     /\ pc'[p] = "get"
                     /\ nAcquire'[p] = nAcquire[p] + 1
                     /\ nGet'[p] = nGet[p] + 1]_vars

\* While one caller is partway through a backoff sleep, another has just
\* returned from acquire() and issued its GET.
C29_Witness ==
    \E p, q \in Procs :
        /\ p # q
        /\ pc[q] = "backoff"
        /\ 0 < sleepLeft[q] /\ sleepLeft[q] < 2 ^ retry_count[q]
        /\ pc[p] = "get"
        /\ acq[p].recorded = 0
        /\ requests # <<>> /\ requests[Len(requests)] = 0

\* No caller is inside acquire().
NoAcquireInProgress ==
    /\ lockHolder = NoProc
    /\ \A p \in Procs : ~InAcquire(p)

\* Every tracked timestamp is as old as the return of its acquire(), or
\* older: the newest timestamps and the newest returns belong together, one
\* of each being appended by every acquire().
NoLaterThanReturn ==
    \A k \in 1..Min(Len(requests), Len(returns)) :
        requests[Len(requests) - k + 1] >= returns[Len(returns) - k + 1]

\* C30: whenever no acquire() is in progress the limiter tracks at most
\* max_requests timestamps, and no tracked timestamp is later than the
\* return of the acquire() that recorded it.
C30_TrackedAtMostBudget ==
    NoAcquireInProgress =>
        /\ Len(requests) <= max_requests
        /\ NoLaterThanReturn
====
